---- MODULE Spec2Model ----
(***************************************************************************)
(* Cost calculation, markup resolution and pricing reconciliation of the   *)
(* neutral-cost Convex component.                                          *)
(*                                                                         *)
(* Numbers.  The program computes with JavaScript numbers.  The model      *)
(* computes with exact rationals [n |-> numerator, d |-> denominator],     *)
(* kept in lowest terms with d > 0, so two numbers are equal exactly when  *)
(* their records are equal.  Binary floating point representation error is *)
(* outside the model.                                                      *)
(*                                                                         *)
(* Optional values.  A value that may be undefined is a sequence: <<>> is  *)
(* undefined and <<x>> is the value x.                                     *)
(***************************************************************************)
EXTENDS Integers, Sequences, FiniteSets, TLC

VARIABLES
  \* --- aiPricing reconciliation (component/pricing.ts) ---
  aiPricing,      \* the aiPricing table, documents in creation order
  clock,          \* Date.now(), advanced by every run
  lastFeed,       \* pricingData of the last updatePricingTable run
  preCatalog,     \* the aiPricing table before the last run
  lastResult,     \* what the last run returned and how many writes it made
  sameFeedAgain,  \* the last run repeated the feed of the run before it
  \* --- calculateToolCost / calculateToolCostFromTokenPricing (shared.ts) ---
  calcCall,       \* the last call: function, usage, pricing, markupMultiplier
  calcResult,     \* what it returned or the error it threw
  \* --- getMarkupMultiplier over the in-process lists (shared.ts) ---
  resolveCall,    \* the last call's arguments
  resolveResult,  \* the multiplier it returned
  \* --- recording costs (client/index.ts, aiCosts.ts, toolCosts.ts) ---
  options,          \* the rule lists given to the CostComponent constructor
  markupTable,      \* the markupMultiplier table, documents in creation order
  toolsPricing,     \* the toolsPricing table, documents in creation order
  costPerAIRequest, \* the costPerAIRequest table
  costPerTools,     \* the costPerTools table
  lastAdd,          \* the last call made to the deployment and its outcome
  returnedAdds,     \* how many add calls have returned, by function and message
  \* --- the example application (example/convex/agent.ts) ---
  messages,         \* what getMessagesByIds returns for the messageId
  transactions      \* where each addAICostTransaction invocation stands

syncVars == <<aiPricing, clock, lastFeed, preCatalog, lastResult, sameFeedAgain>>
calcVars == <<calcCall, calcResult>>
resolveVars == <<resolveCall, resolveResult>>
costVars ==
  <<options, markupTable, toolsPricing, costPerAIRequest, costPerTools, lastAdd,
    returnedAdds>>
exampleVars == <<messages, transactions>>
vars == <<syncVars, calcVars, resolveVars, costVars, exampleVars>>

----------------------------------------------------------------------------
(* Exact rational arithmetic *)

RECURSIVE GCD(_, _)
GCD(a, b) == IF b = 0 THEN a ELSE GCD(b, a % b)

Abs(x) == IF x < 0 THEN -x ELSE x

\* n/d divided through by g, the denominator made positive by the sign s
Reduced(n, d, g, s) == [n |-> s * (n \div g), d |-> s * (d \div g)]

\* n/d in lowest terms, d > 0
Rat(n, d) == Reduced(n, d, GCD(Abs(n), Abs(d)), IF d < 0 THEN -1 ELSE 1)

Num(i) == [n |-> i, d |-> 1]
Zero == Num(0)
One == Num(1)

\* a * b, g1 cancelled from a.n and b.d, g2 from b.n and a.d
MulCancelled(a, b, g1, g2) ==
  Rat((a.n \div g1) * (b.n \div g2), (a.d \div g2) * (b.d \div g1))

\* a * b, cancelling across before multiplying
Mul(a, b) == MulCancelled(a, b, GCD(Abs(a.n), b.d), GCD(Abs(b.n), a.d))

\* a + b over the denominator a.d * b.d / g
AddOver(a, b, g) ==
  Rat(a.n * (b.d \div g) + b.n * (a.d \div g), (a.d \div g) * b.d)

\* a + b over the least common denominator
Add(a, b) == AddOver(a, b, GCD(a.d, b.d))

Neg(a) == [n |-> -a.n, d |-> a.d]
Less(a, b) == a.n * b.d < b.n * a.d
LessEq(a, b) == a.n * b.d <= b.n * a.d

----------------------------------------------------------------------------
(* round8: Math.round(value * 1e8) / 1e8 *)

\* the 1e8 of round8
E8 == 100000000

\* the MILLION of the per-million token rates
MILLION == 1000000

\* one more decimal of a long division by d: p is <<quotient, remainder>>
LongDivStep(p, d) == <<p[1] * 10 + ((p[2] * 10) \div d), (p[2] * 10) % d>>

\* <<floor(r * 10^k / d), (r * 10^k) % d>> for 0 <= r < d, by long division
RECURSIVE LongDiv(_, _, _)
LongDiv(r, d, k) ==
  IF k = 0 THEN <<0, r>> ELSE LongDivStep(LongDiv(r, d, k - 1), d)

\* Math.round(x): the nearest integer, a tie going up (towards +infinity).
\* MathRoundE8(x) is Math.round(x * 1e8) split as <<whole part of x, the
\* rounded count of 1e-8 units in its fractional part>>.
\* p is the long division of the fractional part of x to 8 decimals: the count
\* of 1e-8 units, and the remainder that decides the rounding.
RoundedUnits(p, d) == p[1] + (IF 2 * p[2] >= d THEN 1 ELSE 0)

MathRoundE8(x) ==
  <<x.n \div x.d, RoundedUnits(LongDiv(x.n % x.d, x.d, 8), x.d)>>

\* whole + units / 1e8 in lowest terms, g being the GCD of units and 1e8
UnitsOverE8(whole, units, g) ==
  [n |-> whole * (E8 \div g) + (units \div g), d |-> E8 \div g]

\* m / 1e8 for m = Math.round(value * 1e8), split as MathRoundE8 gives it
DividedByE8(m) == UnitsOverE8(m[1], m[2], GCD(m[2], E8))

round8(value) == DividedByE8(MathRoundE8(value))

----------------------------------------------------------------------------
(* JavaScript values *)

Undefined == <<>>
Some(x) == <<x>>

\* a ?? b, for an optional a
OrElse(a, b) == IF a = Undefined THEN b ELSE a[1]

\* the truthiness of an optional number (undefined and 0 are falsy)
TruthyNum(a) == a # Undefined /\ a[1] # Zero

\* the truthiness of an optional string (undefined and "" are falsy)
TruthyStr(a) == a # Undefined /\ a[1] # ""

\* map?.[key] for an optional record of numbers and an optional key
Lookup(map, key) ==
  IF map = Undefined \/ key = Undefined THEN Undefined
  ELSE IF key[1] \in DOMAIN map[1] THEN Some(map[1][key[1]]) ELSE Undefined

\* String(x) of a number with at most 8 decimals
RECURSIVE Decimals(_, _)
Decimals(r, d) ==
  IF r = 0 THEN ""
  ELSE ToString((r * 10) \div d) \o Decimals((r * 10) % d, d)

NumberToString(x) ==
  LET a == Abs(x.n)
      whole == ToString(a \div x.d)
      frac == Decimals(a % x.d, x.d)
  IN (IF x.n < 0 THEN "-" ELSE "") \o whole
       \o (IF frac = "" THEN "" ELSE "." \o frac)

----------------------------------------------------------------------------
(* calculateToolCost: one operator per case of the switch on usage.type.   *)
(* Each gives the amount and the breakdown of a usage and a pricing of the *)
(* same type.                                                              *)

ToolKinds ==
  {"credits", "tokens", "requests", "compute", "storage", "bandwidth",
   "units", "tiered", "composite", "custom"}

\* the message of the Error thrown when pricing.type differs from usage.type
\* (the template string, as the sequence of its literal and interpolated parts)
MismatchMessage(usageType, pricingType) ==
  <<"Usage type '", usageType, "' requires pricing type '", usageType,
    "', got '", pricingType, "'">>

CaseCredits(usage, pricing) ==
  LET typed == Lookup(pricing.creditTypes, usage.creditType)
      rate == IF TruthyStr(usage.creditType) /\ TruthyNum(typed)
              THEN typed[1] ELSE pricing.costPerCredit
  IN [amount |-> round8(Mul(usage.credits, rate)),
      breakdown |-> [type |-> "credits", credits |-> usage.credits,
                     costPerCredit |-> rate]]

\* tokens / MILLION
PerMillion(tokens) == Mul(tokens, Rat(1, MILLION))

\* the cost of an optional token count: undefined when the count is falsy
OptionalTokenCost(tokens, rate) ==
  IF TruthyNum(tokens) THEN Some(round8(Mul(PerMillion(tokens[1]), rate)))
  ELSE Undefined

\* the total of the five per-field costs, and the breakdown
TokenTotal(inputCost, outputCost, reasoningCost, cacheReadCost, cacheWriteCost) ==
  [amount |->
     round8(Add(Add(Add(Add(inputCost, outputCost),
                        OrElse(reasoningCost, Zero)),
                    OrElse(cacheReadCost, Zero)),
                OrElse(cacheWriteCost, Zero))),
   breakdown |-> [type |-> "tokens",
                  inputTokensCost |-> inputCost,
                  outputTokensCost |-> outputCost,
                  reasoningTokensCost |-> reasoningCost,
                  cacheReadTokensCost |-> cacheReadCost,
                  cacheWriteTokensCost |-> cacheWriteCost]]

\* the five per-field token costs and their total, from the five rates
TokenCosts(usage, input, output, reasoning, cache_read, cache_write) ==
  TokenTotal(round8(Mul(PerMillion(usage.inputTokens), input)),
             round8(Mul(PerMillion(usage.outputTokens), output)),
             OptionalTokenCost(usage.reasoningTokens,
                               OrElse(reasoning, output)),
             OptionalTokenCost(usage.cacheReadTokens,
                               OrElse(cache_read, Mul(input, Rat(1, 4)))),
             OptionalTokenCost(usage.cacheWriteTokens,
                               OrElse(cache_write, output)))

CaseTokens(usage, pricing) ==
  TokenCosts(usage, pricing.input, pricing.output, pricing.reasoning,
             pricing.cache_read, pricing.cache_write)

CaseRequests(usage, pricing) ==
  LET typed == Lookup(pricing.requestTypes, usage.requestType)
      rate == IF TruthyStr(usage.requestType) /\ TruthyNum(typed)
              THEN typed[1] ELSE pricing.costPerRequest
  IN [amount |-> round8(Mul(usage.requests, rate)),
      breakdown |-> [type |-> "requests", requests |-> usage.requests,
                     costPerRequest |-> rate]]

CaseCompute(usage, pricing) ==
  LET typed == Lookup(pricing.computeTypes, usage.computeType)
      rate0 == IF TruthyStr(usage.computeType) /\ TruthyNum(typed)
               THEN typed[1] ELSE pricing.costPerMs
      tier == Lookup(pricing.tiers, usage.tier)
      rate == IF TruthyStr(usage.tier) /\ TruthyNum(tier)
              THEN Mul(rate0, tier[1]) ELSE rate0
  IN [amount |-> round8(Mul(usage.durationMs, rate)),
      breakdown |-> [type |-> "compute", durationMs |-> usage.durationMs,
                     costPerMs |-> rate, computeType |-> usage.computeType]]

CaseStorage(usage, pricing) ==
  LET class == Lookup(pricing.storageClasses, usage.storageClass)
      rate == IF TruthyStr(usage.storageClass) /\ TruthyNum(class)
              THEN class[1] ELSE pricing.costPerByteSecond
      durationSeconds == OrElse(usage.durationSeconds, One)
  IN [amount |-> round8(Mul(Mul(usage.bytes, durationSeconds), rate)),
      breakdown |-> [type |-> "storage", bytes |-> usage.bytes,
                     durationSeconds |-> durationSeconds,
                     costPerByteSecond |-> rate]]

\* the cost of an optional byte count: undefined when the count is falsy
OptionalBytesCost(bytes, costPerByte, regionMultiplier) ==
  IF TruthyNum(bytes)
  THEN Some(round8(Mul(Mul(bytes[1], OrElse(costPerByte, Zero)),
                       regionMultiplier)))
  ELSE Undefined

BandwidthTotal(bytesInCost, bytesOutCost) ==
  [amount |-> round8(Add(OrElse(bytesInCost, Zero),
                         OrElse(bytesOutCost, Zero))),
   breakdown |-> [type |-> "bandwidth", bytesInCost |-> bytesInCost,
                  bytesOutCost |-> bytesOutCost]]

CaseBandwidth(usage, pricing) ==
  LET region == Lookup(pricing.regions, usage.region)
      regionMultiplier == IF TruthyStr(usage.region) /\ TruthyNum(region)
                          THEN region[1] ELSE One
  IN BandwidthTotal(
       OptionalBytesCost(usage.bytesIn, pricing.costPerByteIn,
                         regionMultiplier),
       OptionalBytesCost(usage.bytesOut, pricing.costPerByteOut,
                         regionMultiplier))

CaseUnits(usage, pricing) ==
  [amount |-> round8(Mul(usage.units, pricing.costPerUnit)),
   breakdown |-> [type |-> "units", units |-> usage.units,
                  unitType |-> usage.unitType,
                  costPerUnit |-> pricing.costPerUnit]]

\* a plausible slip in the tier test: the upper bound excluded
TierContainsHalfOpen(quantity, tier) ==
  /\ LessEq(tier.from, quantity)
  /\ (tier.to = Undefined \/ Less(quantity, tier.to[1]))

\* the test of the loop over pricing.tiers
TierContains(quantity, tier) ==
  /\ LessEq(tier.from, quantity)
  /\ (tier.to = Undefined \/ LessEq(quantity, tier.to[1]))

\* a plausible slip: the last tier charged when the loop runs to the end
FirstTierOrLast(quantity, tiers) ==
  LET hits == {i \in 1..Len(tiers) : TierContains(quantity, tiers[i])}
  IN IF hits = {} THEN Len(tiers)
     ELSE CHOOSE i \in hits : \A j \in hits : i <= j

\* the index of the tier at which the loop breaks, 0 when it runs to the end
FirstTier(quantity, tiers) ==
  LET hits == {i \in 1..Len(tiers) : TierContains(quantity, tiers[i])}
  IN IF hits = {} THEN 0
     ELSE CHOOSE i \in hits : \A j \in hits : i <= j

\* the sign the source prints for an absent upper bound (a non-ASCII string
\* in the source, written here in ASCII)
InfinitySign == "oo"

CaseTiered(usage, pricing) ==
  LET i == FirstTier(usage.quantity, pricing.tiers)
      effectiveRate == IF i = 0 THEN Zero ELSE pricing.tiers[i].rate
      tierApplied ==
        IF i = 0 THEN "default"
        ELSE NumberToString(pricing.tiers[i].from) \o "-"
               \o (IF pricing.tiers[i].to = Undefined THEN InfinitySign
                   ELSE NumberToString(pricing.tiers[i].to[1]))
  IN [amount |-> round8(Mul(usage.quantity, effectiveRate)),
      breakdown |-> [type |-> "tiered", quantity |-> usage.quantity,
                     tierApplied |-> tierApplied,
                     effectiveRate |-> effectiveRate]]

\* The rate of the first pricing component whatever its name: a usage
\* component without a same-named pricing component is then charged.
ComponentUnitCostUnnamed(components, name) ==
  IF components = <<>> THEN Zero ELSE components[1].costPerUnit

\* pricing.components.find((p) => p.name === name)?.costPerUnit ?? 0
ComponentUnitCost(components, name) ==
  LET hits == {i \in 1..Len(components) : components[i].name = name}
  IN IF hits = {} THEN Zero
     ELSE components[CHOOSE i \in hits : \A j \in hits : i <= j].costPerUnit

RECURSIVE SumTotalCost(_, _)
SumTotalCost(componentCosts, k) ==
  IF k = 0 THEN Zero
  ELSE Add(SumTotalCost(componentCosts, k - 1), componentCosts[k].totalCost)

\* usage.components.map(...): each usage component priced by name
ComponentCost(usageComp, unitCost) ==
  [name |-> usageComp.name, quantity |-> usageComp.quantity,
   unitCost |-> unitCost,
   totalCost |-> round8(Mul(usageComp.quantity, unitCost))]

CompositeTotal(componentCosts) ==
  [amount |-> round8(SumTotalCost(componentCosts, Len(componentCosts))),
   breakdown |-> [type |-> "composite", components |-> componentCosts]]

CaseComposite(usage, pricing) ==
  CompositeTotal(
    [k \in 1..Len(usage.components) |->
       ComponentCost(usage.components[k],
                     ComponentUnitCost(pricing.components,
                                       usage.components[k].name))])

\* The custom case labelled with the kind of its payload instead of "custom".
CaseCustomAsData(usage, pricing) ==
  [amount |-> Zero, breakdown |-> [type |-> "data", data |-> usage.data]]

CaseCustom(usage, pricing) ==
  [amount |-> Zero, breakdown |-> [type |-> "custom", data |-> usage.data]]

\* the case of the switch for a usage type
CaseOf(usage, pricing) ==
  CASE usage.type = "credits" -> CaseCredits(usage, pricing)
    [] usage.type = "tokens" -> CaseTokens(usage, pricing)
    [] usage.type = "requests" -> CaseRequests(usage, pricing)
    [] usage.type = "compute" -> CaseCompute(usage, pricing)
    [] usage.type = "storage" -> CaseStorage(usage, pricing)
    [] usage.type = "bandwidth" -> CaseBandwidth(usage, pricing)
    [] usage.type = "units" -> CaseUnits(usage, pricing)
    [] usage.type = "tiered" -> CaseTiered(usage, pricing)
    [] usage.type = "composite" -> CaseComposite(usage, pricing)
    [] usage.type = "custom" -> CaseCustom(usage, pricing)

\* a plausible slip in the markup test: 0 taken for "no markup"
ApplyMarkupZeroIsNone(amount, currency, breakdown, markupMultiplier) ==
  [ok |-> TRUE,
   cost |-> [amount |-> amount, currency |-> currency,
             breakdown |-> breakdown],
   costForUser |->
     [amount |-> IF markupMultiplier # Zero
                 THEN round8(Mul(amount, markupMultiplier)) ELSE amount,
      currency |-> currency,
      markupMultiplier |-> IF markupMultiplier # Zero
                           THEN Some(markupMultiplier) ELSE Undefined,
      breakdown |-> breakdown]]

\* userAmount and the returned { cost, costForUser }
ApplyMarkup(amount, currency, breakdown, markupMultiplier) ==
  [ok |-> TRUE,
   cost |-> [amount |-> amount, currency |-> currency,
             breakdown |-> breakdown],
   costForUser |->
     [amount |-> IF markupMultiplier # One
                 THEN round8(Mul(amount, markupMultiplier)) ELSE amount,
      currency |-> currency,
      markupMultiplier |-> IF markupMultiplier # One
                           THEN Some(markupMultiplier) ELSE Undefined,
      breakdown |-> breakdown]]

Thrown(message) == [ok |-> FALSE, error |-> message]

\* a plausible slip in the type check: a custom usage priced by any pricing
TypeCheckSkipsCustom(usage, pricing) ==
  usage.type = "custom" \/ pricing.type = usage.type

\* the check that opens every case: pricing.type !== usage.type throws
TypeCheck(usage, pricing) == pricing.type = usage.type

\* the markup applied to the amount and breakdown c of a case
Marked(c, currency, markupMultiplier) ==
  ApplyMarkup(c.amount, currency, c.breakdown, markupMultiplier)

calculateToolCost(usage, pricing, markupMultiplier) ==
  IF ~TypeCheck(usage, pricing)
  THEN Thrown(MismatchMessage(usage.type, pricing.type))
  ELSE Marked(CaseOf(usage, pricing), pricing.currency, markupMultiplier)

\* the usage.type !== "tokens" check, then the token formula on an aiPricing
\* document's rates, in USD
calculateToolCostFromTokenPricing(usage, pricing, markupMultiplier) ==
  IF usage.type # "tokens"
  THEN Thrown(<<"Token pricing can only be used with token-based usage">>)
  ELSE Marked(TokenCosts(usage, pricing.pricing.input,
                         pricing.pricing.output, pricing.pricing.reasoning,
                         pricing.pricing.cache_read,
                         pricing.pricing.cache_write),
              "USD", markupMultiplier)

----------------------------------------------------------------------------
(* calculateCosts and calculateUserCosts *)

\* the four costs and their total, each rounded to 8 decimals
RoundedCosts(promptTokensCost, completionTokensCost, reasoningTokensCost, cachedInputTokensCost) ==
  [promptTokensCost |-> round8(promptTokensCost),
   completionTokensCost |-> round8(completionTokensCost),
   reasoningTokensCost |-> round8(reasoningTokensCost),
   cachedInputTokensCost |-> round8(cachedInputTokensCost),
   totalCost |->
     round8(Add(Add(Add(promptTokensCost, completionTokensCost),
                    reasoningTokensCost),
                cachedInputTokensCost))]

calculateCosts(usage, pricing) ==
  RoundedCosts(
    Mul(PerMillion(usage.promptTokens), pricing.pricing.input),
    Mul(PerMillion(usage.completionTokens), pricing.pricing.output),
    Mul(PerMillion(OrElse(usage.reasoningTokens, Zero)),
        OrElse(pricing.pricing.reasoning, pricing.pricing.output)),
    Mul(PerMillion(OrElse(usage.cachedInputTokens, Zero)),
        OrElse(pricing.pricing.cache_read,
               Mul(pricing.pricing.input, Rat(1, 4)))))

calculateUserCosts(costs, markupMultiplier) ==
  [promptTokensCost |-> round8(Mul(costs.promptTokensCost, markupMultiplier)),
   completionTokensCost |->
     round8(Mul(costs.completionTokensCost, markupMultiplier)),
   reasoningTokensCost |->
     round8(Mul(costs.reasoningTokensCost, markupMultiplier)),
   cachedInputTokensCost |->
     round8(Mul(costs.cachedInputTokensCost, markupMultiplier)),
   totalCost |-> round8(Mul(costs.totalCost, markupMultiplier))]

----------------------------------------------------------------------------
(* The calls of the calculators that the model explores *)

\* the longest tier list and component list explored
MaxTiers == 2
MaxComponents == 2

SeqsUpTo(S, k) == UNION {[1..m -> S] : m \in 0..k}

Cent == Rat(1, 100)
\* 1.5e-8: a rate whose products fall between two 8-decimal values
Tiny == Rat(3, 2 * E8)

CreditsUsages ==
  [type : {"credits"}, credits : {Num(-2), Num(2), Num(3)},
   creditType : {Undefined, Some("scrape"), Some("crawl")}]
CreditsPricings ==
  [type : {"credits"}, costPerCredit : {Cent, Tiny}, currency : {"USD"},
   creditTypes : {Undefined, Some("scrape" :> Rat(1, 20)),
                  Some("scrape" :> Zero)}]

TokensUsages ==
  [type : {"tokens"}, inputTokens : {Num(MILLION), Num(3)},
   outputTokens : {Zero, Num(500000)},
   reasoningTokens : {Undefined, Some(Num(1000))},
   cacheReadTokens : {Undefined, Some(Zero), Some(Num(2000))},
   cacheWriteTokens : {Undefined, Some(Num(7))}]
TokensPricings ==
  [type : {"tokens"}, input : {Num(2), Rat(3, 200)}, output : {Zero, Num(8)},
   reasoning : {Undefined, Some(Num(4))},
   cache_read : {Undefined, Some(Rat(1, 2))},
   cache_write : {Undefined, Some(Num(3))}, currency : {"USD"}]

RequestsUsages ==
  [type : {"requests"}, requests : {One, Num(3)},
   requestType : {Undefined, Some("search")}]
RequestsPricings ==
  [type : {"requests"}, costPerRequest : {Cent, Tiny}, currency : {"USD"},
   requestTypes : {Undefined, Some("search" :> Rat(1, 4)),
                   Some("search" :> Zero)}]

ComputeUsages ==
  [type : {"compute"}, durationMs : {Num(1500)},
   computeType : {Undefined, Some("gpu")},
   tier : {Undefined, Some("premium")}]
ComputePricings ==
  [type : {"compute"}, costPerMs : {Rat(1, 1000)}, currency : {"USD"},
   computeTypes : {Undefined, Some("gpu" :> Rat(1, 100))},
   tiers : {Undefined, Some("premium" :> Num(2))}]

StorageUsages ==
  [type : {"storage"}, bytes : {Num(1024)},
   durationSeconds : {Undefined, Some(Num(60))},
   storageClass : {Undefined, Some("cold")}]
StoragePricings ==
  [type : {"storage"}, costPerByteSecond : {Rat(1, MILLION)},
   currency : {"USD"},
   storageClasses : {Undefined, Some("cold" :> Rat(1, 10 * MILLION))}]

BandwidthUsages ==
  [type : {"bandwidth"}, bytesIn : {Undefined, Some(Num(3))},
   bytesOut : {Undefined, Some(Zero), Some(One)},
   region : {Undefined, Some("eu-west")}]
BandwidthPricings ==
  [type : {"bandwidth"}, costPerByteIn : {Undefined, Some(Tiny)},
   costPerByteOut : {Some(Tiny)}, currency : {"EUR"},
   regions : {Undefined, Some("eu-west" :> Num(3))}]

UnitsUsages ==
  [type : {"units"}, units : {Num(3), Num(5)}, unitType : {"images"}]
UnitsPricings ==
  [type : {"units"}, costPerUnit : {Cent, Tiny}, unitType : {"images"},
   currency : {"USD"}]

Tiers ==
  {[from |-> Zero, to |-> Some(Num(100)), rate |-> One],
   [from |-> Num(100), to |-> Undefined, rate |-> Rat(1, 2)],
   [from |-> Num(100), to |-> Some(Num(200)), rate |-> Tiny],
   [from |-> Num(201), to |-> Undefined, rate |-> Cent]}
TieredUsages ==
  [type : {"tiered"},
   quantity : {Num(-1), Zero, Num(99), Num(100), Num(150), Num(200),
               Rat(401, 2), Num(201)},
   unitType : {"calls"}]
TieredPricings ==
  [type : {"tiered"}, tiers : SeqsUpTo(Tiers, MaxTiers),
   unitType : {"calls"}, currency : {"USD"}]

UsageComponents ==
  [name : {"cpu", "ram"}, quantity : {Num(3)}, unitType : {"hours"}]
PricingComponents ==
  {[name |-> "cpu", costPerUnit |-> Tiny, unitType |-> "hours"],
   [name |-> "cpu", costPerUnit |-> Cent, unitType |-> "hours"],
   [name |-> "disk", costPerUnit |-> One, unitType |-> "hours"]}
CompositeUsages ==
  [type : {"composite"}, components : SeqsUpTo(UsageComponents, MaxComponents)]
CompositePricings ==
  [type : {"composite"},
   components : SeqsUpTo(PricingComponents, MaxComponents),
   currency : {"USD"}]

CustomUsages == [type : {"custom"}, data : {"opaque"}]
CustomPricings == [type : {"custom"}, data : {"formula"}, currency : {"USD"}]

ToolUsages ==
  CreditsUsages \cup TokensUsages \cup RequestsUsages \cup ComputeUsages
    \cup StorageUsages \cup BandwidthUsages \cup UnitsUsages
    \cup TieredUsages \cup CompositeUsages \cup CustomUsages

ToolPricings ==
  CreditsPricings \cup TokensPricings \cup RequestsPricings
    \cup ComputePricings \cup StoragePricings \cup BandwidthPricings
    \cup UnitsPricings \cup TieredPricings \cup CompositePricings
    \cup CustomPricings

\* the markupMultiplier argument: omitted, or a number
MarkupArgs ==
  {Undefined, Some(Zero), Some(One), Some(Rat(3, 2)), Some(Num(2))}

\* aiPricing documents handed to calculateToolCostFromTokenPricing
TokenPricingDocs ==
  [providerId : {"openai"}, modelId : {"openai"},
   pricing : [input : {Num(2), Rat(3, 200)},
              output : {Zero, Num(8), Rat(3, 200)},
              reasoning : {Undefined, Some(Num(4))},
              cache_read : {Undefined, Some(Rat(1, 2))},
              cache_write : {Undefined, Some(Num(3))}]]

\* the token usages of an AI response
AIUsages ==
  [promptTokens : {Num(MILLION), Num(3)}, completionTokens : {Zero, Num(3)},
   totalTokens : {Num(MILLION)},
   reasoningTokens : {Undefined, Some(Num(1000))},
   cachedInputTokens : {Undefined, Some(Zero), Some(Num(2000))}]

NoCall == [fn |-> "none"]
NoResult == [ok |-> FALSE, error |-> <<>>]

\* the calls: calculateToolCost(usage, pricing, markupMultiplier = 1),
\* calculateToolCostFromTokenPricing(usage, pricing, markupMultiplier = 1) and
\* calculateCosts(usage, pricing)
\* the values rounded with their negations: values halfway between two
\* 8-decimal values, values off the halfway point on both sides, and values
\* that have no more than 8 decimals
Round8Values ==
  {Zero, Rat(1, 2 * E8), Rat(3, 2 * E8), Rat(9, 2 * E8), Rat(1, 150000000),
   Rat(1, 210000000), Rat(1, 3), Rat(2, 3), Rat(1, E8), Num(2),
   Rat(200000001, 2 * E8)}

CalcCalls ==
  [fn : {"round8"}, value : Round8Values, returned : {FALSE}]
  \cup
  [fn : {"calculateCosts"}, usage : AIUsages, pricing : TokenPricingDocs,
   markupMultiplier : {Undefined}, returned : {FALSE}]
  \cup
  [fn : {"calculateToolCost"}, usage : ToolUsages, pricing : ToolPricings,
   markupMultiplier : MarkupArgs, returned : {FALSE}]
  \cup
  [fn : {"calculateToolCostFromTokenPricing"}, usage : ToolUsages,
   pricing : TokenPricingDocs, markupMultiplier : MarkupArgs,
   returned : {FALSE}]

\* no calculator is being called
CalcIdle ==
  /\ calcCall = NoCall
  /\ calcResult = NoResult

\* a caller has chosen the arguments of a call
CalcInit ==
  /\ calcCall \in CalcCalls
  /\ calcResult = NoResult

CalculateToolCost ==
  /\ calcCall.fn = "calculateToolCost"
  /\ ~calcCall.returned
  /\ calcResult' = calculateToolCost(calcCall.usage, calcCall.pricing,
                                     OrElse(calcCall.markupMultiplier, One))
  /\ calcCall' = [calcCall EXCEPT !.returned = TRUE]

CalculateCosts ==
  /\ calcCall.fn = "calculateCosts"
  /\ ~calcCall.returned
  /\ calcResult' = [ok |-> TRUE,
                    costs |-> calculateCosts(calcCall.usage, calcCall.pricing)]
  /\ calcCall' = [calcCall EXCEPT !.returned = TRUE]

\* round8 of a value and of its negation
Round8 ==
  /\ calcCall.fn = "round8"
  /\ ~calcCall.returned
  /\ calcResult' = [ok |-> TRUE, rounded |-> round8(calcCall.value),
                    ofNegation |-> round8(Neg(calcCall.value))]
  /\ calcCall' = [calcCall EXCEPT !.returned = TRUE]

CalculateToolCostFromTokenPricing ==
  /\ calcCall.fn = "calculateToolCostFromTokenPricing"
  /\ ~calcCall.returned
  /\ calcResult' =
       calculateToolCostFromTokenPricing(calcCall.usage, calcCall.pricing,
                                         OrElse(calcCall.markupMultiplier, One))
  /\ calcCall' = [calcCall EXCEPT !.returned = TRUE]

----------------------------------------------------------------------------
(* getMarkupMultiplier over the in-process rule lists *)

\* list.find(pred), given the elements that satisfy pred in list order: the
\* first of them, <<>> when there is none
Find(matching) ==
  IF matching = <<>> THEN Undefined ELSE Some(Head(matching))

\* a plausible slip in the cascade: the tool rule looked up before the model
\* rule
getMarkupMultiplierToolFirst(providerId, modelId, toolId, providerMarkupMultipliers, modelMarkupMultipliers, toolMarkupMultipliers) ==
  LET modelMarkup ==
        IF TruthyStr(modelId)
        THEN Find(SelectSeq(modelMarkupMultipliers,
                  LAMBDA m : m.providerId = providerId /\ m.modelId = modelId[1]))
        ELSE Undefined
      toolMarkup ==
        IF TruthyStr(toolId)
        THEN Find(SelectSeq(toolMarkupMultipliers,
                  LAMBDA t : t.providerId = providerId /\ t.toolId = toolId[1]))
        ELSE Undefined
      providerMarkup ==
        Find(SelectSeq(providerMarkupMultipliers, LAMBDA p : p.providerId = providerId))
  IN IF toolMarkup # Undefined THEN toolMarkup[1].markupMultiplier
     ELSE IF modelMarkup # Undefined THEN modelMarkup[1].markupMultiplier
     ELSE IF providerMarkup # Undefined THEN providerMarkup[1].markupMultiplier
     ELSE Zero

getMarkupMultiplier(providerId, modelId, toolId, providerMarkupMultipliers, modelMarkupMultipliers, toolMarkupMultipliers) ==
  LET modelMarkup ==
        IF TruthyStr(modelId)
        THEN Find(SelectSeq(modelMarkupMultipliers,
                  LAMBDA m : m.providerId = providerId /\ m.modelId = modelId[1]))
        ELSE Undefined
      toolMarkup ==
        IF TruthyStr(toolId)
        THEN Find(SelectSeq(toolMarkupMultipliers,
                  LAMBDA t : t.providerId = providerId /\ t.toolId = toolId[1]))
        ELSE Undefined
      providerMarkup ==
        Find(SelectSeq(providerMarkupMultipliers, LAMBDA p : p.providerId = providerId))
  IN IF modelMarkup # Undefined THEN modelMarkup[1].markupMultiplier
     ELSE IF toolMarkup # Undefined THEN toolMarkup[1].markupMultiplier
     ELSE IF providerMarkup # Undefined THEN providerMarkup[1].markupMultiplier
     ELSE Zero

\* the longest rule list explored
MaxRules == 2

ProviderRules ==
  {[providerId |-> "openai", markupMultiplier |-> Rat(11, 10)],
   [providerId |-> "openai", markupMultiplier |-> Rat(5, 4)],
   [providerId |-> "exa", markupMultiplier |-> Num(3)]}
ModelRules ==
  {[providerId |-> "openai", modelId |-> "gpt-4o", markupMultiplier |-> Num(2)],
   [providerId |-> "openai", modelId |-> "gpt-4o", markupMultiplier |-> Zero],
   [providerId |-> "exa", modelId |-> "", markupMultiplier |-> Num(4)]}
ToolRules ==
  {[providerId |-> "openai", toolId |-> "search",
    markupMultiplier |-> Rat(3, 2)],
   [providerId |-> "exa", toolId |-> "", markupMultiplier |-> Num(5)]}

ResolveCalls ==
  [fn : {"getMarkupMultiplier"}, providerId : {"openai", "exa"},
   modelId : {Undefined, Some(""), Some("gpt-4o")},
   toolId : {Undefined, Some(""), Some("search")},
   providerMarkupMultipliers : SeqsUpTo(ProviderRules, MaxRules),
   modelMarkupMultipliers : SeqsUpTo(ModelRules, MaxRules),
   toolMarkupMultipliers : SeqsUpTo(ToolRules, MaxRules),
   returned : {FALSE}]

\* a caller has chosen the arguments of a call
ResolveInit ==
  /\ resolveCall \in ResolveCalls
  /\ resolveResult = Zero

GetMarkupMultiplier ==
  /\ resolveCall.fn = "getMarkupMultiplier"
  /\ ~resolveCall.returned
  /\ resolveResult' =
       getMarkupMultiplier(resolveCall.providerId, resolveCall.modelId,
                           resolveCall.toolId,
                           resolveCall.providerMarkupMultipliers,
                           resolveCall.modelMarkupMultipliers,
                           resolveCall.toolMarkupMultipliers)
  /\ resolveCall' = [resolveCall EXCEPT !.returned = TRUE]

----------------------------------------------------------------------------
(* updatePricingTable: the reconciliation of the aiPricing table with a feed *)

\* true when a tracked field of the stored record differs from the new one
hasPricingChanged(existing, newPricing) ==
  \/ existing.pricing.input # newPricing.pricing.input
  \/ existing.pricing.output # newPricing.pricing.output
  \/ existing.pricing.reasoning # newPricing.pricing.reasoning
  \/ existing.pricing.cache_read # newPricing.pricing.cache_read
  \/ existing.pricing.cache_write # newPricing.pricing.cache_write
  \/ existing.limits.context # newPricing.limits.context
  \/ existing.limits.output # newPricing.limits.output
  \/ existing.modelName # newPricing.modelName
  \/ existing.providerName # newPricing.providerName

\* the key of existingMap and seenKeys: `${p.modelId}:${p.providerId}`
MapKey(p) == p.modelId \o ":" \o p.providerId

\* existingMap.get(key): new Map(pairs) keeps, of the records with one key, the
\* last in table order.  The result is the record's position in
\* existingPricing, 0 when the map has no such key.
ExistingMapGet(existingPricing, key) ==
  LET hits == {i \in 1..Len(existingPricing) : MapKey(existingPricing[i]) = key}
  IN IF hits = {} THEN 0
     ELSE CHOOSE i \in hits : \A j \in hits : j <= i

\* the loop over args.pricingData, after its first k entries: the table (the
\* records read at the start at their positions, the inserted ones after
\* them) and the two counts
RECURSIVE ProcessEntries(_, _, _)
ProcessEntries(existingPricing, pricingData, k) ==
  IF k = 0
  THEN [table |-> existingPricing, insertCount |-> 0, updateCount |-> 0]
  ELSE LET before == ProcessEntries(existingPricing, pricingData, k - 1)
           newPricing == pricingData[k]
           existing == ExistingMapGet(existingPricing, MapKey(newPricing))
       IN IF existing = 0
          THEN [before EXCEPT !.table = Append(@, newPricing),
                              !.insertCount = @ + 1]
          ELSE IF hasPricingChanged(existingPricing[existing], newPricing)
          THEN [before EXCEPT !.table[existing] = newPricing,
                              !.updateCount = @ + 1]
          ELSE before

\* the positions deleted by the loop over existingMap.entries()
DeletedPositions(existingPricing, pricingData) ==
  LET seenKeys == {MapKey(pricingData[k]) : k \in 1..Len(pricingData)}
  IN {i \in 1..Len(existingPricing) :
        /\ ExistingMapGet(existingPricing, MapKey(existingPricing[i])) = i
        /\ MapKey(existingPricing[i]) \notin seenKeys}

\* a table without the records at the given positions
RECURSIVE Without(_, _, _)
Without(table, positions, k) ==
  IF k = 0 THEN <<>>
  ELSE IF k \in positions THEN Without(table, positions, k - 1)
  ELSE Append(Without(table, positions, k - 1), table[k])

\* the handler: the table it leaves and the counts it returns
updatePricingTable(existingPricing, pricingData) ==
  LET processed == ProcessEntries(existingPricing, pricingData,
                                  Len(pricingData))
      deleted == DeletedPositions(existingPricing, pricingData)
  IN [table |-> Without(processed.table, deleted, Len(processed.table)),
      insertCount |-> processed.insertCount,
      updateCount |-> processed.updateCount,
      deleteCount |-> Cardinality(deleted)]

\* the longest feed and the number of runs explored
MaxFeed == 2
MaxRuns == 2

\* a feed entry as parseModelPricing builds it from an identifier pair and an
\* input rate (the names falling back to the identifiers)
FeedEntry(providerId, modelId, input) ==
  [providerId |-> providerId, providerName |-> providerId,
   modelId |-> modelId, modelName |-> modelId,
   pricing |-> [input |-> input, output |-> Num(8), reasoning |-> Undefined,
                cache_read |-> Undefined, cache_write |-> Undefined],
   limits |-> [context |-> 128000, output |-> 4096]]

\* two identifier pairs whose map keys are different, one of them at two
\* rates, and a third pair whose map key is that of the second
FeedEntries ==
  {FeedEntry("p", "m", One), FeedEntry("p", "m", Num(2)),
   FeedEntry("p:p", "m", One), FeedEntry("p", "m:p", One)}

\* the feed entries with the time of their retrieval
Stamped(feed, now) ==
  [k \in 1..Len(feed) |->
     [providerId |-> feed[k].providerId, providerName |-> feed[k].providerName,
      modelId |-> feed[k].modelId, modelName |-> feed[k].modelName,
      pricing |-> feed[k].pricing, limits |-> feed[k].limits,
      lastUpdated |-> now]]

\* one run of updatePricingTable: with one of the given feeds, retrieved now,
\* or with the pricingData of the last run once more
RunUpdatePricingTable(feeds) ==
  /\ clock < MaxRuns
  /\ \E pricingData \in
          {Stamped(feed, clock + 1) : feed \in feeds}
            \cup (IF clock > 0 THEN {lastFeed} ELSE {}) :
       LET run == updatePricingTable(aiPricing, pricingData)
       IN /\ aiPricing' = run.table
          /\ lastFeed' = pricingData
          /\ preCatalog' = aiPricing
          /\ lastResult' =
               [insertCount |-> run.insertCount,
                updateCount |-> run.updateCount,
                deleteCount |-> run.deleteCount,
                writes |-> run.insertCount + run.updateCount
                             + run.deleteCount]
          /\ sameFeedAgain' = (clock > 0 /\ pricingData = lastFeed)
  /\ clock' = clock + 1

UpdatePricingTable == RunUpdatePricingTable(SeqsUpTo(FeedEntries, MaxFeed))

\* a plausible reading of the handler as a sequence of writes committed one by
\* one: the writes made before the error stay in the table
FailedRunKeepsWrites(pricingData, applied) ==
  /\ clock < MaxRuns
  /\ aiPricing' = applied.table
  /\ lastFeed' = pricingData
  /\ preCatalog' = aiPricing
  /\ lastResult' = [failed |-> TRUE,
                    writes |-> applied.insertCount + applied.updateCount,
                    pending |-> applied.table]
  /\ sameFeedAgain' = FALSE
  /\ clock' = clock + 1

\* a run of updatePricingTable that throws after some entries of the feed were
\* handled, applied being the loop's table and counts at that point.  The
\* handler is a mutation (mutationGeneric): its writes are those of one
\* transaction, which the error aborts, so none of them is committed.
FailedRun(pricingData, applied) ==
  /\ clock < MaxRuns
  /\ aiPricing' = aiPricing
  /\ lastFeed' = pricingData
  /\ preCatalog' = aiPricing
  /\ lastResult' = [failed |-> TRUE,
                    writes |-> applied.insertCount + applied.updateCount,
                    pending |-> applied.table]
  /\ sameFeedAgain' = FALSE
  /\ clock' = clock + 1

\* the run throws while it handles entry k + 1 of the feed, or after the last
\* entry, in the loop of the deletions
FailingUpdatePricingTable ==
  \E feed \in SeqsUpTo(FeedEntries, MaxFeed), k \in 0..MaxFeed :
    /\ k <= Len(feed)
    /\ FailedRun(Stamped(feed, clock + 1),
                 ProcessEntries(aiPricing, Stamped(feed, clock + 1), k))

----------------------------------------------------------------------------
(* The queries of the component.  A query over an index returns the        *)
(* documents with the given values of the indexed fields in creation order. *)

\* pricing.getPricing
getPricing(modelId, providerId) ==
  Find(SelectSeq(aiPricing,
       LAMBDA p : p.modelId = modelId /\ p.providerId = providerId))

\* pricing.getToolPricing: a toolsPricing document, else an aiPricing one
getToolPricing(providerId, toolId) ==
  LET exactMatch ==
        IF toolId # ""
        THEN Find(SelectSeq(toolsPricing,
                  LAMBDA t : t.providerId = providerId
                             /\ t.toolId = Some(toolId)))
        ELSE Undefined
      providerMatch ==
        Find(SelectSeq(toolsPricing,
             LAMBDA t : t.providerId = providerId /\ t.toolId = Undefined))
      aiPricingResult == Find(SelectSeq(aiPricing, LAMBDA p : p.modelId = providerId))
  IN IF exactMatch # Undefined THEN exactMatch
     ELSE IF providerMatch # Undefined THEN providerMatch
     ELSE aiPricingResult

\* markup.getMarkupMultipliers: the three lists of the stored rules
markup_getMarkupMultipliers ==
  [providerMultipliers |->
     LET rules == SelectSeq(markupTable, LAMBDA m : m.scope = "provider")
     IN [k \in 1..Len(rules) |->
           [providerId |-> rules[k].providerId,
            markupMultiplier |-> rules[k].markupMultiplier]],
   modelMarkupMultipliers |->
     LET rules == SelectSeq(markupTable, LAMBDA m : m.scope = "model")
     IN [k \in 1..Len(rules) |->
           [providerId |-> rules[k].providerId,
            modelId |-> rules[k].modelId[1],
            markupMultiplier |-> rules[k].markupMultiplier]],
   toolMarkupMultipliers |->
     LET rules == SelectSeq(markupTable, LAMBDA m : m.scope = "tool")
     IN [k \in 1..Len(rules) |->
           [providerId |-> rules[k].providerId,
            toolId |-> rules[k].toolId[1],
            markupMultiplier |-> rules[k].markupMultiplier]]]

\* a plausible slip in the stored cascade: the provider fallback read through
\* the by_provider index, which holds the rules of every scope
markup_getMarkupMultiplierAnyScope(providerId, modelId, toolId) ==
  LET modelMatch ==
        IF TruthyStr(modelId)
        THEN Find(SelectSeq(markupTable,
                  LAMBDA m : m.providerId = providerId /\ m.modelId = modelId))
        ELSE Undefined
      toolMatch ==
        IF TruthyStr(toolId)
        THEN Find(SelectSeq(markupTable,
                  LAMBDA t : t.providerId = providerId /\ t.toolId = toolId))
        ELSE Undefined
      providerMatch ==
        Find(SelectSeq(markupTable, LAMBDA p : p.providerId = providerId))
  IN IF modelMatch # Undefined THEN modelMatch[1].markupMultiplier
     ELSE IF toolMatch # Undefined THEN toolMatch[1].markupMultiplier
     ELSE IF providerMatch # Undefined THEN providerMatch[1].markupMultiplier
     ELSE Zero

\* markup.getMarkupMultiplier: the cascade over the stored rules
markup_getMarkupMultiplier(providerId, modelId, toolId) ==
  LET modelMatch ==
        IF TruthyStr(modelId)
        THEN Find(SelectSeq(markupTable,
                  LAMBDA m : m.providerId = providerId /\ m.modelId = modelId))
        ELSE Undefined
      toolMatch ==
        IF TruthyStr(toolId)
        THEN Find(SelectSeq(markupTable,
                  LAMBDA t : t.providerId = providerId /\ t.toolId = toolId))
        ELSE Undefined
      providerMatch ==
        Find(SelectSeq(markupTable,
             LAMBDA p : p.scope = "provider" /\ p.providerId = providerId))
  IN IF modelMatch # Undefined THEN modelMatch[1].markupMultiplier
     ELSE IF toolMatch # Undefined THEN toolMatch[1].markupMultiplier
     ELSE IF providerMatch # Undefined THEN providerMatch[1].markupMultiplier
     ELSE Zero

----------------------------------------------------------------------------
(* addAICost and addToolCost: the component actions, the clientApi actions *)
(* and the CostComponent methods.  Each operator gives the outcome of the   *)
(* handler: the error it throws, or the record it saves.                    *)

\* the multiplier chosen by aiCosts.addAICost, <<>> when it charges zeros
AIMarkupChoice(markupMultiplier, markup) ==
  IF TruthyNum(markupMultiplier) \/ Less(Zero, markup)
  THEN Some(IF TruthyNum(markupMultiplier) /\ Less(Zero, markupMultiplier[1])
            THEN markupMultiplier[1] ELSE markup)
  ELSE Undefined

\* a plausible slip: without a multiplier the user is charged the raw costs
UserCostsOfAtCost(costs, choice) ==
  IF choice # Undefined THEN calculateUserCosts(costs, choice[1]) ELSE costs

\* the userCosts of aiCosts.addAICost
UserCostsOf(costs, choice) ==
  IF choice # Undefined THEN calculateUserCosts(costs, choice[1])
  ELSE [cachedInputTokensCost |-> Zero, completionTokensCost |-> Zero,
        totalCost |-> Zero, promptTokensCost |-> Zero,
        reasoningTokensCost |-> Zero]

\* the document saveAICost inserts
AICostRecord(args, costs, userCosts) ==
  [ok |-> TRUE,
   record |-> [messageId |-> args.messageId, userId |-> args.userId,
               threadId |-> args.threadId, cost |-> costs,
               costForUser |-> userCosts, usage |-> args.usage]]

\* the costs and the multiplier choice of aiCosts.addAICost, saved
PricedAICost(args, costs, choice) ==
  AICostRecord(args, costs, UserCostsOf(costs, choice))

\* aiCosts.addAICost, with saveAICost
addAICost(args) ==
  LET pricing == getPricing(args.modelId, args.providerId)
  IN IF pricing = Undefined THEN Thrown(<<"Pricing not found for model">>)
     ELSE PricedAICost(
            args, calculateCosts(args.usage, pricing[1]),
            AIMarkupChoice(args.markupMultiplier,
                           markup_getMarkupMultiplier(
                             args.providerId, Some(args.modelId), Undefined)))

\* the multiplier toolCosts.addToolCost resolves from the stored rules
StoredToolMarkup(args, markupMultipliers) ==
  getMarkupMultiplier(args.providerId, Undefined, Some(args.toolId),
                      markupMultipliers.providerMultipliers,
                      markupMultipliers.modelMarkupMultipliers,
                      markupMultipliers.toolMarkupMultipliers)

\* the calculator toolCosts.addToolCost chooses by the shape of the pricing
\* document: "input" in pricing.pricing
CalculatedResult(usage, pricing, markupMultiplier) ==
  IF "input" \in DOMAIN pricing.pricing
  THEN calculateToolCostFromTokenPricing(usage, pricing, markupMultiplier)
  ELSE calculateToolCost(usage, pricing.pricing, markupMultiplier)

\* the error of the calculator, or the document saveToolCost inserts
ToolCostRecord(args, calculatedResult) ==
  IF ~calculatedResult.ok THEN calculatedResult
  ELSE [ok |-> TRUE,
        record |-> [messageId |-> args.messageId, userId |-> args.userId,
                    threadId |-> args.threadId,
                    providerId |-> args.providerId, toolId |-> args.toolId,
                    usage |-> args.usage, cost |-> calculatedResult.cost,
                    costForUser |-> calculatedResult.costForUser,
                    timestamp |-> clock]]

\* toolCosts.addToolCost, with saveToolCost
addToolCost(args) ==
  LET pricing == getToolPricing(args.providerId, args.toolId)
  IN IF pricing = Undefined THEN Thrown(<<"Pricing not found for tool">>)
     ELSE ToolCostRecord(
            args,
            CalculatedResult(
              args.usage, pricing[1],
              OrElse(args.markupMultiplier,
                     StoredToolMarkup(args, markup_getMarkupMultipliers))))

\* the multiplier resolved from the constructor's lists for an AI request
ConfiguredAIMarkup(args) ==
  getMarkupMultiplier(args.providerId, Some(args.modelId), Undefined,
                      OrElse(options.providerMarkupMultiplier, <<>>),
                      OrElse(options.modelMarkupMultiplier, <<>>),
                      OrElse(options.toolMarkupMultiplier, <<>>))

\* the multiplier resolved from the constructor's lists for a tool request
ConfiguredToolMarkup(args) ==
  getMarkupMultiplier(args.providerId, Undefined, Some(args.toolId),
                      OrElse(options.providerMarkupMultiplier, <<>>),
                      OrElse(options.modelMarkupMultiplier, <<>>),
                      OrElse(options.toolMarkupMultiplier, <<>>))

\* CostComponent.addAICost: args.markupMultiplier || markup
CostComponent_addAICost(args) ==
  addAICost([args EXCEPT !.markupMultiplier =
               IF TruthyNum(@) THEN @ ELSE Some(ConfiguredAIMarkup(args))])

\* CostComponent.addToolCost: args.markupMultiplier ?? markup
CostComponent_addToolCost(args) ==
  addToolCost([args EXCEPT !.markupMultiplier =
                 Some(OrElse(@, ConfiguredToolMarkup(args)))])

\* clientApi().addAICost: args.markupMultiplier ?? markup
clientApi_addAICost(args) ==
  addAICost([args EXCEPT !.markupMultiplier =
               Some(OrElse(@, ConfiguredAIMarkup(args)))])

\* clientApi().addToolCost: args.markupMultiplier ?? markup
clientApi_addToolCost(args) ==
  addToolCost([args EXCEPT !.markupMultiplier =
                 Some(OrElse(@, ConfiguredToolMarkup(args)))])

----------------------------------------------------------------------------
(* The mutations of the markupMultiplier table *)

\* the stored rules of a provider, as their positions in the table
by_provider(providerId) ==
  {i \in 1..Len(markupTable) : markupTable[i].providerId = providerId}

\* existing.find(...), given the positions that satisfy the test: the first of
\* them, 0 when there is none
MatchOf(hits) ==
  IF hits = {} THEN 0 ELSE CHOOSE i \in hits : \A j \in hits : i <= j

\* a plausible slip: the rule is inserted without looking for an existing one
UpsertInserts(match, rule) == Append(markupTable, rule)

\* patch the matching rule's multiplier, or insert the rule
Upsert(match, rule) ==
  IF match # 0
  THEN [markupTable EXCEPT ![match].markupMultiplier = rule.markupMultiplier]
  ELSE Append(markupTable, rule)

upsertProviderMarkup(args) ==
  Upsert(MatchOf({i \in by_provider(args.providerId) :
                    markupTable[i].scope = "provider"}),
         [scope |-> "provider", providerId |-> args.providerId,
          modelId |-> Undefined, toolId |-> Undefined,
          markupMultiplier |-> args.markupMultiplier])

upsertModelMarkup(args) ==
  Upsert(MatchOf({i \in by_provider(args.providerId) :
                    /\ markupTable[i].scope = "model"
                    /\ markupTable[i].modelId = Some(args.modelId)}),
         [scope |-> "model", providerId |-> args.providerId,
          modelId |-> Some(args.modelId), toolId |-> Undefined,
          markupMultiplier |-> args.markupMultiplier])

upsertToolMarkup(args) ==
  Upsert(MatchOf({i \in by_provider(args.providerId) :
                    /\ markupTable[i].scope = "tool"
                    /\ markupTable[i].toolId = Some(args.toolId)}),
         [scope |-> "tool", providerId |-> args.providerId,
          modelId |-> Undefined, toolId |-> Some(args.toolId),
          markupMultiplier |-> args.markupMultiplier])

\* deleteMarkup's existing.find(...): the first rule of the provider with the
\* scope and, for a model or tool rule, the identifier of the arguments
DeleteMatch(args) ==
  MatchOf({i \in by_provider(args.providerId) :
             /\ markupTable[i].scope = args.scope
             /\ CASE args.scope = "provider" -> TRUE
                  [] args.scope = "model" ->
                       markupTable[i].modelId = args.modelId
                  [] args.scope = "tool" -> markupTable[i].toolId = args.toolId})

\* ctx.db.delete(match._id): the table without the document at a position
Deleted(match) ==
  SubSeq(markupTable, 1, match - 1)
    \o SubSeq(markupTable, match + 1, Len(markupTable))

\* deleteMarkup: the table it leaves and the boolean it returns
deleteMarkup(args) ==
  IF DeleteMatch(args) # 0
  THEN [table |-> Deleted(DeleteMatch(args)), returns |-> TRUE]
  ELSE [table |-> markupTable, returns |-> FALSE]

----------------------------------------------------------------------------
(* A deployment: a CostComponent over the component's tables *)

\* the most stored rules, cost records and toolsPricing documents explored
MaxMarkups == 2
MaxCosts == 2
MaxToolRows == 1

\* new CostComponent(component) without options
NoOptions ==
  [providerMarkupMultiplier |-> Undefined, modelMarkupMultiplier |-> Undefined,
   toolMarkupMultiplier |-> Undefined]

\* the constructor's options: none, or a provider rule and a tool rule
Options ==
  {NoOptions,
   [providerMarkupMultiplier |->
      Some(<<[providerId |-> "openai", markupMultiplier |-> Rat(3, 2)]>>),
    modelMarkupMultiplier |-> Undefined,
    toolMarkupMultiplier |->
      Some(<<[providerId |-> "exa", toolId |-> "search",
              markupMultiplier |-> Rat(5, 4)]>>)]}

\* the body of a models.dev response: an object of providers, each with its
\* models (a provider entry that is not an object with models has no
\* providerData)
ModelsDevData ==
  <<[providerId |-> "openai",
     providerData |->
       Some([models |-> <<[modelId |-> "gpt-4o", input |-> Num(2)]>>])]>>

\* the models of one provider entry, parsed; none for an invalid entry
ProviderModels(entry) ==
  IF entry.providerData = Undefined THEN <<>>
  ELSE [k \in 1..Len(entry.providerData[1].models) |->
          FeedEntry(entry.providerId, entry.providerData[1].models[k].modelId,
                    entry.providerData[1].models[k].input)]

\* parseModelsDevResponse: the models of the valid provider entries, in order
RECURSIVE parseModelsDevResponse(_, _)
parseModelsDevResponse(data, k) ==
  IF k = 0 THEN <<>>
  ELSE parseModelsDevResponse(data, k - 1) \o ProviderModels(data[k])

\* the models.dev feed of the deployment
ModelsDevFeed == parseModelsDevResponse(ModelsDevData, Len(ModelsDevData))

\* what fetch(MODELS_DEV_API_URL) gives: a rejection, a response that is not
\* OK, a body that is not JSON, the JSON value null, a JSON object without a
\* valid provider entry (empty, or an error report), and the feed
Rejected ==
  [fetch |-> "rejected", ok |-> FALSE, status |-> "", json |-> FALSE,
   data |-> Undefined]
FeedResponse ==
  [fetch |-> "resolved", ok |-> TRUE, status |-> "200", json |-> TRUE,
   data |-> Some(ModelsDevData)]
Responses ==
  {Rejected, FeedResponse,
   [fetch |-> "resolved", ok |-> FALSE, status |-> "500", json |-> FALSE,
    data |-> Undefined],
   [fetch |-> "resolved", ok |-> TRUE, status |-> "200", json |-> FALSE,
    data |-> Undefined],
   [fetch |-> "resolved", ok |-> TRUE, status |-> "200", json |-> TRUE,
    data |-> Undefined],
   [fetch |-> "resolved", ok |-> TRUE, status |-> "200", json |-> TRUE,
    data |-> Some(<<>>)],
   [fetch |-> "resolved", ok |-> TRUE, status |-> "200", json |-> TRUE,
    data |-> Some(<<[providerId |-> "error", providerData |-> Undefined]>>)]}

\* the try block of updatePricingData up to the parsed feed: the error it
\* rethrows, or pricingUpdates
pricingUpdatesOf(response) ==
  IF response.fetch = "rejected"
  THEN Thrown(<<"Failed to update pricing data: ", "fetch failed">>)
  ELSE IF ~response.ok
  THEN Thrown(<<"Failed to update pricing data: ", "HTTP error! status: ",
                response.status>>)
  ELSE IF ~response.json
  THEN Thrown(<<"Failed to update pricing data: ", "SyntaxError">>)
  ELSE IF response.data = Undefined
  THEN Thrown(<<"Failed to update pricing data: ", "TypeError">>)
  ELSE [ok |-> TRUE,
        pricingUpdates |->
          parseModelsDevResponse(response.data[1], Len(response.data[1]))]

\* the toolsPricing documents of the deployment
ToolsPricingRows ==
  {[providerId |-> "exa", providerName |-> "Exa", toolId |-> Some("search"),
    modelName |-> Undefined,
    pricing |-> [type |-> "credits", costPerCredit |-> Cent,
                 currency |-> "USD", creditTypes |-> Undefined],
    limits |-> Undefined]}

\* the markupMultiplier argument of an add call
Overrides == {Undefined, Some(Zero), Some(Num(4))}

\* the most rules the store is let to hold when it is explored on its own
MaxStored == 3

\* the upsert and delete calls explored on the store: two providers, a model
\* and a tool of each, two multipliers; a delete may name a scope without its
\* identifier
UpsertCalls ==
  [fn : {"upsertProviderMarkup"},
   args : [providerId : {"openai", "exa"}, markupMultiplier : {Zero, Num(2)}]]
    \cup [fn : {"upsertModelMarkup"},
          args : [providerId : {"openai", "exa"}, modelId : {"gpt-4o"},
                  markupMultiplier : {Zero, Num(2)}]]
    \cup [fn : {"upsertToolMarkup"},
          args : [providerId : {"openai", "exa"}, toolId : {"search"},
                  markupMultiplier : {Zero, Num(2)}]]

DeleteArgs ==
  [scope : {"provider", "model", "tool"}, providerId : {"openai", "exa"},
   modelId : {Undefined, Some("gpt-4o")}, toolId : {Undefined, Some("search")}]

\* the requests resolved against the store
StoreRequests ==
  [providerId : {"openai", "exa"},
   modelId : {Undefined, Some(""), Some("gpt-4o")},
   toolId : {Undefined, Some(""), Some("search")}]

\* the table an upsert call leaves
UpsertedBy(call) ==
  CASE call.fn = "upsertProviderMarkup" -> upsertProviderMarkup(call.args)
    [] call.fn = "upsertModelMarkup" -> upsertModelMarkup(call.args)
    [] call.fn = "upsertToolMarkup" -> upsertToolMarkup(call.args)

\* a call on the rule store: the table it leaves and what it returns
StoreCall(fn, args, table, returns) ==
  /\ Len(table) <= MaxStored
  /\ markupTable' = table
  /\ lastAdd' = [fn |-> fn, args |-> args, returns |-> returns]
  /\ UNCHANGED <<syncVars, options, toolsPricing, costPerAIRequest,
                 costPerTools, returnedAdds>>

StoreUpsert ==
  \E call \in UpsertCalls :
    StoreCall(call.fn, call.args, UpsertedBy(call), "id")

StoreDelete ==
  \E args \in DeleteArgs :
    StoreCall("deleteMarkup", args, deleteMarkup(args).table,
              deleteMarkup(args).returns)

\* one request resolved by the markup.getMarkupMultiplier query and by the
\* shared getMarkupMultiplier over the lists of markup.getMarkupMultipliers
InProcess(request, markupMultipliers) ==
  getMarkupMultiplier(request.providerId, request.modelId, request.toolId,
                      markupMultipliers.providerMultipliers,
                      markupMultipliers.modelMarkupMultipliers,
                      markupMultipliers.toolMarkupMultipliers)

StoreResolve ==
  \E request \in StoreRequests :
    StoreCall("getMarkupMultiplier", request, markupTable,
              [persisted |->
                 markup_getMarkupMultiplier(request.providerId,
                                            request.modelId, request.toolId),
               inProcess |-> InProcess(request, markup_getMarkupMultipliers)])

\* the most toolsPricing documents when getToolPricing is explored
MaxToolDocs == 2

\* toolsPricing documents as the schema admits them (toolId: v.string()): of
\* a tool, of the empty toolId, of the same tool at another rate, and of a
\* provider that is also the modelId of an aiPricing document
ToolsPricingDocs ==
  {[providerId |-> providerId, providerName |-> providerId,
    toolId |-> Some(toolId), modelName |-> Undefined,
    pricing |-> [type |-> "credits", costPerCredit |-> costPerCredit,
                 currency |-> "USD", creditTypes |-> Undefined],
    limits |-> Undefined] :
     providerId \in {"exa", "gpt-4o"}, toolId \in {"search", ""},
     costPerCredit \in {Cent, Tiny}}

\* the requests of getToolPricing: args.toolId is a string
ToolPricingRequests ==
  [providerId : {"exa", "gpt-4o"}, toolId : {"search", "", "crawl"}]

\* a getToolPricing query
GetToolPricing ==
  \E request \in ToolPricingRequests :
    StoreCall("getToolPricing", request, markupTable,
              getToolPricing(request.providerId, request.toolId))

\* the messageIds of the add calls
MessageIds == {"msg_1"}

\* no add call has returned
NoAdds ==
  [fn \in {"addAICost", "addToolCost"} |-> [messageId \in MessageIds |-> 0]]

AddAICostArgs ==
  [messageId : MessageIds, userId : {Some("user_1")}, threadId : {"thread_1"},
   usage : {[promptTokens |-> Num(MILLION), completionTokens |-> Num(500000),
             totalTokens |-> Num(1500000), reasoningTokens |-> Undefined,
             cachedInputTokens |-> Undefined]},
   modelId : {"gpt-4o"}, providerId : {"openai"},
   markupMultiplier : Overrides]

\* the tool requests of the deployment: a credits usage and a requests usage of
\* the priced tool, and a tokens usage and a credits usage of a provider that
\* has no toolsPricing document but is the modelId of an aiPricing document
ToolRequests ==
  {[providerId |-> "exa",
    usage |-> [type |-> "credits", credits |-> Num(2),
               creditType |-> Undefined]],
   [providerId |-> "exa",
    usage |-> [type |-> "requests", requests |-> Num(3),
               requestType |-> Undefined]],
   [providerId |-> "gpt-4o",
    usage |-> [type |-> "tokens", inputTokens |-> Num(MILLION),
               outputTokens |-> Num(500000), reasoningTokens |-> Undefined,
               cacheReadTokens |-> Undefined, cacheWriteTokens |-> Undefined]],
   [providerId |-> "gpt-4o",
    usage |-> [type |-> "credits", credits |-> Num(2),
               creditType |-> Undefined]]}

AddToolCostArgs ==
  {[messageId |-> messageId, userId |-> Some("user_1"),
    threadId |-> "thread_1", providerId |-> request.providerId,
    toolId |-> "search", usage |-> request.usage,
    markupMultiplier |-> markupMultiplier] :
     messageId \in MessageIds, request \in ToolRequests,
     markupMultiplier \in Overrides}

\* a CostComponent built with one of the options over empty tables
CostInit ==
  /\ options \in Options
  /\ markupTable = <<>>
  /\ toolsPricing = <<>>
  /\ costPerAIRequest = <<>>
  /\ costPerTools = <<>>
  /\ lastAdd = NoCall
  /\ returnedAdds = NoAdds

\* a plausible slip: the table is cleared for the new feed before the feed
\* is known to have arrived
UpdateFromClearsFirst(response, outcome) ==
  /\ RunUpdatePricingTable(
       {IF outcome.ok THEN outcome.pricingUpdates ELSE <<>>})
  /\ lastAdd' = [fn |-> "updatePricingData", response |-> response,
                 ok |-> outcome.ok,
                 error |-> IF outcome.ok THEN <<>> ELSE outcome.error]
  /\ UNCHANGED <<options, markupTable, toolsPricing, costPerAIRequest,
                 costPerTools, returnedAdds>>

\* updatePricingData after the fetch: the error is rethrown, or the parsed
\* feed is reconciled into aiPricing by updatePricingTable
UpdateFrom(response, outcome) ==
  /\ IF outcome.ok THEN RunUpdatePricingTable({outcome.pricingUpdates})
     ELSE UNCHANGED syncVars
  /\ lastAdd' = [fn |-> "updatePricingData", response |-> response,
                 ok |-> outcome.ok,
                 error |-> IF outcome.ok THEN <<>> ELSE outcome.error]
  /\ UNCHANGED <<options, markupTable, toolsPricing, costPerAIRequest,
                 costPerTools, returnedAdds>>

\* updatePricingData, the fetch answered by one of the given responses
UpdatePricingDataWith(responses) ==
  \E response \in responses : UpdateFrom(response, pricingUpdatesOf(response))

UpdatePricingData == UpdatePricingDataWith(Responses)

\* a toolsPricing document of the given rows is added, up to a number of
\* documents
AddToolsPricingOf(rows, most) ==
  /\ Len(toolsPricing) < most
  /\ \E row \in rows :
       toolsPricing' =
         Append(toolsPricing,
                [providerId |-> row.providerId,
                 providerName |-> row.providerName, toolId |-> row.toolId,
                 modelName |-> row.modelName, pricing |-> row.pricing,
                 limits |-> row.limits, lastUpdated |-> clock])
  /\ lastAdd' = NoCall
  /\ UNCHANGED <<syncVars, options, markupTable, costPerAIRequest,
                 costPerTools, returnedAdds>>

\* the operator of the deployment adds a toolsPricing document
AddToolsPricing == AddToolsPricingOf(ToolsPricingRows, MaxToolRows)

\* the same for the documents explored with getToolPricing
StoreToolsPricing == AddToolsPricingOf(ToolsPricingDocs, MaxToolDocs)

\* a mutation of the markupMultiplier table that leaves at most MaxMarkups
\* rules
MarkupMutation(table) ==
  /\ Len(table) <= MaxMarkups
  /\ markupTable' = table
  /\ lastAdd' = NoCall
  /\ UNCHANGED <<syncVars, options, toolsPricing, costPerAIRequest,
                 costPerTools, returnedAdds>>

UpsertProviderMarkup ==
  \E providerId \in {"openai", "exa"} :
    MarkupMutation(upsertProviderMarkup(
      [providerId |-> providerId, markupMultiplier |-> Num(2)]))

UpsertModelMarkup ==
  MarkupMutation(upsertModelMarkup(
    [providerId |-> "openai", modelId |-> "gpt-4o",
     markupMultiplier |-> Num(3)]))

UpsertToolMarkup ==
  MarkupMutation(upsertToolMarkup(
    [providerId |-> "exa", toolId |-> "search", markupMultiplier |-> Num(3)]))

\* one more call of fn for messageId has returned, unless it threw
Returned(fn, messageId, ok) ==
  IF ok THEN [returnedAdds EXCEPT ![fn][messageId] = @ + 1] ELSE returnedAdds

\* a plausible slip: a call for a message that already has a record returns
\* without inserting another one
AddAIOncePerMessage(via, args, outcome) ==
  /\ Len(costPerAIRequest) + Len(costPerTools) < MaxCosts
  /\ costPerAIRequest' =
       IF /\ outcome.ok
          /\ \A k \in 1..Len(costPerAIRequest) :
               costPerAIRequest[k].messageId # args.messageId
       THEN Append(costPerAIRequest, outcome.record)
       ELSE costPerAIRequest
  /\ lastAdd' = [fn |-> "addAICost", via |-> via, args |-> args,
                 ok |-> outcome.ok,
                 error |-> IF outcome.ok THEN <<>> ELSE outcome.error]
  /\ returnedAdds' = Returned("addAICost", args.messageId, outcome.ok)
  /\ UNCHANGED <<syncVars, options, markupTable, toolsPricing, costPerTools>>

\* an addAICost call through one of its three entries
AddAI(via, args, outcome) ==
  /\ Len(costPerAIRequest) + Len(costPerTools) < MaxCosts
  /\ costPerAIRequest' =
       IF outcome.ok THEN Append(costPerAIRequest, outcome.record)
       ELSE costPerAIRequest
  /\ lastAdd' = [fn |-> "addAICost", via |-> via, args |-> args,
                 ok |-> outcome.ok,
                 error |-> IF outcome.ok THEN <<>> ELSE outcome.error]
  /\ returnedAdds' = Returned("addAICost", args.messageId, outcome.ok)
  /\ UNCHANGED <<syncVars, options, markupTable, toolsPricing, costPerTools>>

\* a plausible slip: the record is inserted before the calculator has run, so
\* that a call that throws leaves a record without costs
AddToolSavesFirst(via, args, outcome) ==
  /\ Len(costPerAIRequest) + Len(costPerTools) < MaxCosts
  /\ costPerTools' =
       Append(costPerTools,
              IF outcome.ok THEN outcome.record
              ELSE [messageId |-> args.messageId, userId |-> args.userId,
                    threadId |-> args.threadId,
                    providerId |-> args.providerId, toolId |-> args.toolId,
                    usage |-> args.usage, timestamp |-> clock])
  /\ lastAdd' = [fn |-> "addToolCost", via |-> via, args |-> args,
                 ok |-> outcome.ok,
                 error |-> IF outcome.ok THEN <<>> ELSE outcome.error]
  /\ returnedAdds' = Returned("addToolCost", args.messageId, outcome.ok)
  /\ UNCHANGED <<syncVars, options, markupTable, toolsPricing,
                 costPerAIRequest>>

\* an addToolCost call through one of its three entries
AddTool(via, args, outcome) ==
  /\ Len(costPerAIRequest) + Len(costPerTools) < MaxCosts
  /\ costPerTools' =
       IF outcome.ok THEN Append(costPerTools, outcome.record)
       ELSE costPerTools
  /\ lastAdd' = [fn |-> "addToolCost", via |-> via, args |-> args,
                 ok |-> outcome.ok,
                 error |-> IF outcome.ok THEN <<>> ELSE outcome.error]
  /\ returnedAdds' = Returned("addToolCost", args.messageId, outcome.ok)
  /\ UNCHANGED <<syncVars, options, markupTable, toolsPricing,
                 costPerAIRequest>>

ComponentAddAICost ==
  \E args \in AddAICostArgs : AddAI("component", args, addAICost(args))

ClientApiAddAICost ==
  \E args \in AddAICostArgs :
    AddAI("clientApi", args, clientApi_addAICost(args))

CostComponentAddAICost ==
  \E args \in AddAICostArgs :
    AddAI("CostComponent", args, CostComponent_addAICost(args))

ComponentAddToolCost ==
  \E args \in AddToolCostArgs : AddTool("component", args, addToolCost(args))

ClientApiAddToolCost ==
  \E args \in AddToolCostArgs :
    AddTool("clientApi", args, clientApi_addToolCost(args))

CostComponentAddToolCost ==
  \E args \in AddToolCostArgs :
    AddTool("CostComponent", args, CostComponent_addToolCost(args))

----------------------------------------------------------------------------
(* The example application: addAICostTransaction (example/convex/agent.ts) *)

\* the invocations of addAICostTransaction for one messageId
MaxInvocations == 2
Invocations == 1..MaxInvocations

MODEL_ID == "gemini-2.5-flash"

\* the options the example gives to the CostComponent constructor
ExampleOptions ==
  [providerMarkupMultiplier |->
     Some(<<[providerId |-> "google", markupMultiplier |-> Num(2)]>>),
   modelMarkupMultiplier |->
     Some(<<[providerId |-> "google", modelId |-> MODEL_ID,
             markupMultiplier |-> Rat(5, 4)]>>),
   toolMarkupMultiplier |->
     Some(<<[providerId |-> "firecrawl", toolId |-> "scrape",
             markupMultiplier |-> Rat(3, 2)]>>)]

\* the models.dev feed with the example's model in it
ExampleResponse ==
  [fetch |-> "resolved", ok |-> TRUE, status |-> "200", json |-> TRUE,
   data |-> Some(<<[providerId |-> "google",
                    providerData |->
                      Some([models |-> <<[modelId |-> MODEL_ID,
                                          input |-> Rat(3, 10)]>>])]>>)]

\* what getMessagesByIds returns: no message, a message without usage, a
\* message with usage
MessagesFound ==
  {<<>>,
   <<[userId |-> Some("user_1"), threadId |-> "thread_1",
      usage |-> Undefined]>>,
   <<[userId |-> Some("user_1"), threadId |-> "thread_1",
      usage |-> Some([promptTokens |-> Num(MILLION),
                      completionTokens |-> Num(500000),
                      totalTokens |-> Num(1500000),
                      reasoningTokens |-> Undefined,
                      cachedInputTokens |-> Undefined])]>>}

\* aiCosts.getAICostByMessageId: the first record of the message
getAICostByMessageId(messageId) ==
  Find(SelectSeq(costPerAIRequest, LAMBDA r : r.messageId = messageId))

\* the arguments addAICostTransaction gives to costs.addAICost
TransactionArgs(messageId) ==
  [messageId |-> messageId, userId |-> messages[1].userId,
   threadId |-> messages[1].threadId, modelId |-> MODEL_ID,
   providerId |-> "google", usage |-> messages[1].usage[1],
   markupMultiplier |-> Undefined]

\* no invocation is scheduled
ExampleIdle ==
  /\ messages = <<>>
  /\ transactions = [i \in Invocations |-> "none"]

\* the invocations are scheduled for a message of the agent component
ExampleInit ==
  /\ messages \in MessagesFound
  /\ transactions = [i \in Invocations |-> "scheduled"]

\* the query of the message: the invocation throws without a message, returns
\* without usage, goes on otherwise
ReadMessage(i) ==
  /\ transactions[i] = "scheduled"
  /\ transactions' =
       [transactions EXCEPT ![i] =
          IF messages = <<>> THEN "threw"
          ELSE IF messages[1].usage = Undefined THEN "returned"
          ELSE "read"]
  /\ UNCHANGED <<messages, syncVars, costVars>>

\* the query of the existing cost: the invocation returns its id when there
\* is one
CheckCost(i, messageId) ==
  /\ transactions[i] = "read"
  /\ transactions' =
       [transactions EXCEPT ![i] =
          IF getAICostByMessageId(messageId) = Undefined THEN "checked"
          ELSE "returned"]
  /\ UNCHANGED <<messages, syncVars, costVars>>

\* costs.addAICost with the message's usage
AddCost(i, args, outcome) ==
  /\ transactions[i] = "checked"
  /\ AddAI("CostComponent", args, outcome)
  /\ transactions' =
       [transactions EXCEPT ![i] = IF outcome.ok THEN "returned" ELSE "threw"]
  /\ UNCHANGED messages

\* one step of one invocation of addAICostTransaction({ messageId })
TransactionReads == \E i \in Invocations : ReadMessage(i)

TransactionChecks ==
  \E i \in Invocations, messageId \in MessageIds : CheckCost(i, messageId)

TransactionAdds ==
  \E i \in Invocations, messageId \in MessageIds :
    AddCost(i, TransactionArgs(messageId),
            CostComponent_addAICost(TransactionArgs(messageId)))

----------------------------------------------------------------------------
(* The queries of the costPerAIRequest table *)

\* a plausible slip: the table read without the index range
getAICostsByThreadUnfiltered(threadId) == costPerAIRequest

\* aiCosts.getAICostsByThread: the records of the by_thread index range
getAICostsByThread(threadId) ==
  SelectSeq(costPerAIRequest, LAMBDA c : c.threadId = threadId)

\* the reduce over costs of a field's totalCost
RECURSIVE SumOf(_, _, _)
SumOf(costs, field, k) ==
  IF k = 0 THEN Zero
  ELSE Add(SumOf(costs, field, k - 1), costs[k][field].totalCost)

\* the object the aggregate queries return for the records they collected
Totals(costs) ==
  [count |-> Len(costs),
   totalAmount |-> round8(SumOf(costs, "cost", Len(costs))),
   totalUserAmount |-> round8(SumOf(costs, "costForUser", Len(costs)))]

\* a plausible slip: the records without a userId counted for every user
getTotalAICostsByUserOrNobody(userId) ==
  Totals(SelectSeq(costPerAIRequest,
                   LAMBDA c : c.userId = Some(userId) \/ c.userId = Undefined))

\* aiCosts.getTotalAICostsByUser: the totals of the by_user index range
getTotalAICostsByUser(userId) ==
  Totals(SelectSeq(costPerAIRequest, LAMBDA c : c.userId = Some(userId)))

\* the addAICost calls whose records are queried: with and without a userId,
\* of two users, in two threads, of two usages, charged four times the cost
QueriedAddArgs ==
  [messageId : MessageIds,
   userId : {Undefined, Some("user_1"), Some("user_2")},
   threadId : {"thread_1", "thread_2"},
   usage : {[promptTokens |-> Num(MILLION), completionTokens |-> Num(500000),
             totalTokens |-> Num(1500000), reasoningTokens |-> Undefined,
             cachedInputTokens |-> Undefined],
            [promptTokens |-> Num(3), completionTokens |-> Zero,
             totalTokens |-> Num(3), reasoningTokens |-> Undefined,
             cachedInputTokens |-> Undefined]},
   modelId : {"gpt-4o"}, providerId : {"openai"},
   markupMultiplier : {Some(Num(4))}]

QueriedAddAICost ==
  \E args \in QueriedAddArgs : AddAI("component", args, addAICost(args))

\* getAICostsByThread through the CostComponent method, and through a query
\* of the application that calls the method
GetAICostsByThread ==
  \E threadId \in {"thread_1", "thread_2"},
     via \in {"CostComponent", "query"} :
    StoreCall("getAICostsByThread", [threadId |-> threadId, via |-> via],
              markupTable, getAICostsByThread(threadId))

GetTotalAICostsByUser ==
  \E userId \in {"user_1", "user_2"} :
    StoreCall("getTotalAICostsByUser", [userId |-> userId], markupTable,
              getTotalAICostsByUser(userId))

----------------------------------------------------------------------------
(* The states before any call *)

NoRun == [insertCount |-> 0, updateCount |-> 0, deleteCount |-> 0,
          writes |-> 0]

\* an empty aiPricing table, nothing run yet
SyncInit ==
  /\ aiPricing = <<>>
  /\ clock = 0
  /\ lastFeed = <<>>
  /\ preCatalog = <<>>
  /\ lastResult = NoRun
  /\ sameFeedAgain = FALSE

\* no resolver is being called
ResolveIdle ==
  /\ resolveCall = NoCall
  /\ resolveResult = Zero

\* a CostComponent built without options over a component with empty tables
CostIdle ==
  /\ options = NoOptions
  /\ markupTable = <<>>
  /\ toolsPricing = <<>>
  /\ costPerAIRequest = <<>>
  /\ costPerTools = <<>>
  /\ lastAdd = NoCall
  /\ returnedAdds = NoAdds

----------------------------------------------------------------------------
(* The calculators, called with every usage, pricing and multiplier *)

InitCalc ==
  SyncInit /\ CalcInit /\ ResolveIdle /\ CostIdle /\ ExampleIdle

NextCalc ==
  \/ CalculateToolCost /\ UNCHANGED <<syncVars, resolveVars, costVars, exampleVars>>
  \/ CalculateToolCostFromTokenPricing
       /\ UNCHANGED <<syncVars, resolveVars, costVars, exampleVars>>
  \/ CalculateCosts /\ UNCHANGED <<syncVars, resolveVars, costVars, exampleVars>>
  \/ Round8 /\ UNCHANGED <<syncVars, resolveVars, costVars, exampleVars>>

SpecCalc == InitCalc /\ [][NextCalc]_vars

\* the last call was a tiered usage priced by a tiered pricing
TieredCall ==
  /\ calcCall.fn = "calculateToolCost"
  /\ calcCall.returned
  /\ calcCall.usage.type = "tiered"
  /\ calcCall.pricing.type = "tiered"

\* tier i is the first tier in list order whose range contains the quantity,
\* the upper bound being part of the range when closed is TRUE
FirstContaining(i, closed) ==
  LET q == calcCall.usage.quantity
      tiers == calcCall.pricing.tiers
      In(t) == /\ LessEq(t.from, q)
               /\ \/ t.to = Undefined
                  \/ Less(q, t.to[1])
                  \/ closed /\ q = t.to[1]
  IN /\ i \in 1..Len(tiers)
     /\ In(tiers[i])
     /\ \A j \in 1..(i - 1) : ~In(tiers[j])

\* the call was charged at the rate of tier i
ChargedAtTier(i) ==
  LET rate == calcCall.pricing.tiers[i].rate
  IN /\ calcResult.ok
     /\ calcResult.cost.breakdown.effectiveRate = rate
     /\ calcResult.cost.amount = round8(Mul(calcCall.usage.quantity, rate))

\* C2 as the code has it: a tiered usage is charged at the rate of the first
\* tier in list order whose closed range [from, to] contains the quantity (to
\* absent: no upper bound), the amount being round8(quantity * rate); a
\* quantity equal to a tier's to is inside that tier.
C2_ClosedTiers ==
  TieredCall =>
    \A i \in 1..Len(calcCall.pricing.tiers) :
      FirstContaining(i, TRUE) => ChargedAtTier(i)

\* C2 as stated: the first tier whose half-open range [from, to) contains the
\* quantity gives the rate, a quantity equal to to being outside that tier.
C2_HalfOpenTiers ==
  TieredCall =>
    \A i \in 1..Len(calcCall.pricing.tiers) :
      FirstContaining(i, FALSE) => ChargedAtTier(i)

\* a quantity equal to the first tier's to, a second tier starting there at
\* another rate, and the call charged at the first tier's rate
C2_Witness ==
  /\ TieredCall
  /\ Len(calcCall.pricing.tiers) = 2
  /\ calcCall.pricing.tiers[1].to = Some(calcCall.usage.quantity)
  /\ calcCall.pricing.tiers[2].from = calcCall.usage.quantity
  /\ calcCall.pricing.tiers[2].rate # calcCall.pricing.tiers[1].rate
  /\ FirstContaining(1, TRUE)
  /\ ChargedAtTier(1)

\* C3: calculateToolCost with a usage of one kind and a pricing of another
\* throws, whatever the two kinds, and the message names both kinds; it never
\* returns a cost for such a pair.
C3_MismatchThrows ==
  (/\ calcCall.fn = "calculateToolCost"
   /\ calcCall.returned
   /\ calcCall.usage.type # calcCall.pricing.type)
  => /\ ~calcResult.ok
     /\ \E k \in DOMAIN calcResult.error :
          calcResult.error[k] = calcCall.usage.type
     /\ \E k \in DOMAIN calcResult.error :
          calcResult.error[k] = calcCall.pricing.type

\* a custom usage priced by a credits pricing, thrown
C3_Witness ==
  /\ calcCall.fn = "calculateToolCost"
  /\ calcCall.returned
  /\ calcCall.usage.type = "custom"
  /\ calcCall.pricing.type = "credits"
  /\ ~calcResult.ok
  /\ calcResult.error = MismatchMessage("custom", "credits")

\* C5: of both calculators, when a cost is returned: costForUser.amount is
\* cost.amount when the multiplier is exactly 1 and round8(cost.amount *
\* multiplier) otherwise, and costForUser.markupMultiplier is set exactly when
\* the multiplier is not 1 (an omitted multiplier is 1).
C5_UserAmount ==
  (/\ calcCall.fn \in {"calculateToolCost",
                       "calculateToolCostFromTokenPricing"}
   /\ calcCall.returned
   /\ calcResult.ok) =>
    LET m == IF calcCall.markupMultiplier = Undefined THEN One
             ELSE calcCall.markupMultiplier[1]
        cost == calcResult.cost
        user == calcResult.costForUser
    IN /\ m = One => user.amount = cost.amount
       /\ m # One => user.amount = round8(Mul(cost.amount, m))
       /\ (user.markupMultiplier # Undefined) <=> (m # One)
       /\ user.markupMultiplier # Undefined => user.markupMultiplier = Some(m)

\* a multiplier of 0 on a cost that is not 0: the user amount is 0 and the
\* multiplier is recorded
C5_Witness ==
  /\ calcCall.fn = "calculateToolCostFromTokenPricing"
  /\ calcCall.returned
  /\ calcResult.ok
  /\ calcCall.markupMultiplier = Some(Zero)
  /\ calcResult.cost.amount # Zero
  /\ calcResult.costForUser.amount = Zero
  /\ calcResult.costForUser.markupMultiplier = Some(Zero)

----------------------------------------------------------------------------
(* The resolver, called with every request and every three rule lists *)

InitResolve ==
  SyncInit /\ CalcIdle /\ ResolveInit /\ CostIdle /\ ExampleIdle

NextResolve ==
  GetMarkupMultiplier /\ UNCHANGED <<syncVars, calcVars, costVars, exampleVars>>

SpecResolve == InitResolve /\ [][NextResolve]_vars

\* the rules of a list, in list order, that a request matches
MatchingModelRules ==
  SelectSeq(resolveCall.modelMarkupMultipliers,
            LAMBDA m : /\ m.providerId = resolveCall.providerId
                       /\ Some(m.modelId) = resolveCall.modelId)
MatchingToolRules ==
  SelectSeq(resolveCall.toolMarkupMultipliers,
            LAMBDA t : /\ t.providerId = resolveCall.providerId
                       /\ Some(t.toolId) = resolveCall.toolId)
MatchingProviderRules ==
  SelectSeq(resolveCall.providerMarkupMultipliers,
            LAMBDA p : p.providerId = resolveCall.providerId)

\* an identifier is given: passed, and not the empty string
ModelIdGiven == resolveCall.modelId \notin {Undefined, Some("")}
ToolIdGiven == resolveCall.toolId \notin {Undefined, Some("")}

\* C4: getMarkupMultiplier returns the multiplier of the (first) model rule
\* matching (providerId, modelId) when modelId is given and such a rule exists;
\* otherwise that of the (first) tool rule matching (providerId, toolId) when
\* toolId is given and such a rule exists; otherwise that of the (first)
\* provider rule matching providerId; otherwise 0.
C4_Cascade ==
  resolveCall.returned =>
    resolveResult =
      IF ModelIdGiven /\ MatchingModelRules # <<>>
      THEN Head(MatchingModelRules).markupMultiplier
      ELSE IF ToolIdGiven /\ MatchingToolRules # <<>>
      THEN Head(MatchingToolRules).markupMultiplier
      ELSE IF MatchingProviderRules # <<>>
      THEN Head(MatchingProviderRules).markupMultiplier
      ELSE Zero

\* a provider rule of 1.1, a tool rule of 1.5 and a model rule of 2 that all
\* match the request: the request resolves to 2
C4_Witness ==
  /\ resolveCall.returned
  /\ resolveCall.providerId = "openai"
  /\ resolveCall.modelId = Some("gpt-4o")
  /\ resolveCall.toolId = Some("search")
  /\ resolveCall.providerMarkupMultipliers =
       <<[providerId |-> "openai", markupMultiplier |-> Rat(11, 10)]>>
  /\ resolveCall.toolMarkupMultipliers =
       <<[providerId |-> "openai", toolId |-> "search",
          markupMultiplier |-> Rat(3, 2)]>>
  /\ resolveCall.modelMarkupMultipliers =
       <<[providerId |-> "openai", modelId |-> "gpt-4o",
          markupMultiplier |-> Num(2)]>>
  /\ resolveResult = Num(2)

----------------------------------------------------------------------------
(* The reconciliation, run from an empty table with every feed *)

InitSync ==
  SyncInit /\ CalcIdle /\ ResolveIdle /\ CostIdle /\ ExampleIdle

NextSync ==
  UpdatePricingTable /\ UNCHANGED <<calcVars, resolveVars, costVars, exampleVars>>

SpecSync == InitSync /\ [][NextSync]_vars

\* the (providerId, modelId) keys of a table or of a feed
KeysOf(records) ==
  {<<records[k].providerId, records[k].modelId>> : k \in 1..Len(records)}

\* C1: after a run of updatePricingTable the keys of the aiPricing table are
\* exactly the keys of the feed.
C1_KeysEqualFeed ==
  clock > 0 => KeysOf(aiPricing) = KeysOf(lastFeed)

\* C6: a run that repeats the feed of the run before it returns three zero
\* counts and writes nothing.
C6_SecondRunIdle ==
  sameFeedAgain =>
    /\ lastResult = NoRun
    /\ aiPricing = preCatalog

\* the keys that the table before the run and the feed share and for which a
\* stored record differs from a feed entry in a tracked field
ChangedKeys ==
  {key \in KeysOf(preCatalog) \cap KeysOf(lastFeed) :
     \E i \in 1..Len(preCatalog), k \in 1..Len(lastFeed) :
       /\ <<preCatalog[i].providerId, preCatalog[i].modelId>> = key
       /\ <<lastFeed[k].providerId, lastFeed[k].modelId>> = key
       /\ hasPricingChanged(preCatalog[i], lastFeed[k])}

\* C7: with M keys in the table, N keys in the feed, K keys in both and C of
\* those differing in a tracked field, a run returns insertCount = N - K,
\* updateCount = C and deleteCount = M - K.
C7_Counts ==
  clock > 0 =>
    LET M == Cardinality(KeysOf(preCatalog))
        N == Cardinality(KeysOf(lastFeed))
        K == Cardinality(KeysOf(preCatalog) \cap KeysOf(lastFeed))
    IN /\ lastResult.insertCount = N - K
       /\ lastResult.updateCount = Cardinality(ChangedKeys)
       /\ lastResult.deleteCount = M - K

\* C8: in every state reached from the empty table by runs of
\* updatePricingTable no two records of the aiPricing table have the same
\* (providerId, modelId) key.
C8_OneEntryPerKey ==
  \A i, j \in 1..Len(aiPricing) :
    (/\ aiPricing[i].providerId = aiPricing[j].providerId
     /\ aiPricing[i].modelId = aiPricing[j].modelId) => i = j

----------------------------------------------------------------------------
(* A deployment: pricing loaded, markup rules stored, costs added *)

InitCost ==
  SyncInit /\ CalcIdle /\ ResolveIdle /\ CostInit /\ ExampleIdle

\* no cost has been saved: this specification explores every configuration of
\* the deployment, its pricing loaded from the feed, and the first cost added
\* under it
FirstCost == costPerAIRequest = <<>> /\ costPerTools = <<>>

NextCost ==
  \/ UpdatePricingDataWith({FeedResponse})
       /\ UNCHANGED <<calcVars, resolveVars, exampleVars>>
  \/ AddToolsPricing /\ UNCHANGED <<calcVars, resolveVars, exampleVars>>
  \/ UpsertProviderMarkup /\ UNCHANGED <<calcVars, resolveVars, exampleVars>>
  \/ UpsertModelMarkup /\ UNCHANGED <<calcVars, resolveVars, exampleVars>>
  \/ UpsertToolMarkup /\ UNCHANGED <<calcVars, resolveVars, exampleVars>>
  \/ FirstCost /\ ComponentAddAICost /\ UNCHANGED <<calcVars, resolveVars, exampleVars>>
  \/ FirstCost /\ ClientApiAddAICost /\ UNCHANGED <<calcVars, resolveVars, exampleVars>>
  \/ FirstCost /\ CostComponentAddAICost
       /\ UNCHANGED <<calcVars, resolveVars, exampleVars>>
  \/ FirstCost /\ ComponentAddToolCost /\ UNCHANGED <<calcVars, resolveVars, exampleVars>>
  \/ FirstCost /\ ClientApiAddToolCost /\ UNCHANGED <<calcVars, resolveVars, exampleVars>>
  \/ FirstCost /\ CostComponentAddToolCost
       /\ UNCHANGED <<calcVars, resolveVars, exampleVars>>

SpecCost == InitCost /\ [][NextCost]_vars

\* the record saved by the last call
SavedAI == costPerAIRequest[Len(costPerAIRequest)]
SavedTool == costPerTools[Len(costPerTools)]

\* the saved user-facing cost is the saved raw cost at multiplier m
AIChargedAt(m) ==
  \A field \in DOMAIN SavedAI.cost :
    SavedAI.costForUser[field] = round8(Mul(SavedAI.cost[field], m))
ToolChargedAt(m) ==
  SavedTool.costForUser.amount =
    IF m = One THEN SavedTool.cost.amount
    ELSE round8(Mul(SavedTool.cost.amount, m))

\* C9: whenever an addAICost or addToolCost call, through the CostComponent
\* method, the clientApi action or the component action, passes a
\* markupMultiplier, the saved user-facing cost is the raw cost at that
\* multiplier.
C9_OverrideWins ==
  (/\ lastAdd.fn \in {"addAICost", "addToolCost"}
   /\ lastAdd.ok
   /\ lastAdd.args.markupMultiplier # Undefined)
  => IF lastAdd.fn = "addAICost"
     THEN AIChargedAt(lastAdd.args.markupMultiplier[1])
     ELSE ToolChargedAt(lastAdd.args.markupMultiplier[1])

\* a stored rule matches the request of the last call
StoredRuleMatches ==
  \E i \in 1..Len(markupTable) :
    LET rule == markupTable[i]
    IN /\ rule.providerId = lastAdd.args.providerId
       /\ \/ rule.scope = "provider"
          \/ /\ rule.scope = "model"
             /\ lastAdd.fn = "addAICost"
             /\ rule.modelId = Some(lastAdd.args.modelId)
          \/ /\ rule.scope = "tool"
             /\ lastAdd.fn = "addToolCost"
             /\ rule.toolId = Some(lastAdd.args.toolId)

\* C10: when a stored rule matches the request and the caller passes no
\* markupMultiplier, the cost saved by CostComponent.addAICost and
\* CostComponent.addToolCost is charged at the multiplier the stored rules
\* resolve to, whatever the constructor's lists hold.
C10_StoredRuleWins ==
  (/\ lastAdd.fn \in {"addAICost", "addToolCost"}
   /\ lastAdd.via = "CostComponent"
   /\ lastAdd.ok
   /\ lastAdd.args.markupMultiplier = Undefined
   /\ StoredRuleMatches)
  => IF lastAdd.fn = "addAICost"
     THEN AIChargedAt(markup_getMarkupMultiplier(
            lastAdd.args.providerId, Some(lastAdd.args.modelId), Undefined))
     ELSE ToolChargedAt(markup_getMarkupMultiplier(
            lastAdd.args.providerId, Undefined, Some(lastAdd.args.toolId)))

\* a rule of the constructor's lists matches the request of the last call
ConfiguredRuleMatches ==
  \/ \E i \in 1..Len(OrElse(options.providerMarkupMultiplier, <<>>)) :
       options.providerMarkupMultiplier[1][i].providerId
         = lastAdd.args.providerId
  \/ /\ lastAdd.fn = "addAICost"
     /\ \E i \in 1..Len(OrElse(options.modelMarkupMultiplier, <<>>)) :
          LET rule == options.modelMarkupMultiplier[1][i]
          IN /\ rule.providerId = lastAdd.args.providerId
             /\ rule.modelId = lastAdd.args.modelId
  \/ /\ lastAdd.fn = "addToolCost"
     /\ \E i \in 1..Len(OrElse(options.toolMarkupMultiplier, <<>>)) :
          LET rule == options.toolMarkupMultiplier[1][i]
          IN /\ rule.providerId = lastAdd.args.providerId
             /\ rule.toolId = lastAdd.args.toolId

----------------------------------------------------------------------------
(* The ledger: costs added one after another to a deployment without       *)
(* markup rules                                                             *)

InitLedger ==
  SyncInit /\ CalcIdle /\ ResolveIdle /\ CostIdle /\ ExampleIdle

NextLedger ==
  \/ UpdatePricingData /\ UNCHANGED <<calcVars, resolveVars, exampleVars>>
  \/ AddToolsPricing /\ UNCHANGED <<calcVars, resolveVars, exampleVars>>
  \/ ComponentAddAICost /\ UNCHANGED <<calcVars, resolveVars, exampleVars>>
  \/ ClientApiAddAICost /\ UNCHANGED <<calcVars, resolveVars, exampleVars>>
  \/ CostComponentAddAICost /\ UNCHANGED <<calcVars, resolveVars, exampleVars>>
  \/ ComponentAddToolCost /\ UNCHANGED <<calcVars, resolveVars, exampleVars>>
  \/ ClientApiAddToolCost /\ UNCHANGED <<calcVars, resolveVars, exampleVars>>
  \/ CostComponentAddToolCost /\ UNCHANGED <<calcVars, resolveVars, exampleVars>>

SpecLedger == InitLedger /\ [][NextLedger]_vars

\* C11: an addAICost or addToolCost call that throws (no pricing for the
\* identifiers, a usage of another kind than the pricing, a usage that is not
\* a tokens usage priced from an aiPricing document) inserts nothing: the
\* costPerAIRequest and costPerTools tables are as they were before the call.
C11_FailedAddSavesNothing ==
  [][(lastAdd'.fn \in {"addAICost", "addToolCost"} /\ ~lastAdd'.ok)
       => /\ costPerAIRequest' = costPerAIRequest
          /\ costPerTools' = costPerTools]_vars

\* after a cost was saved, a credits usage of a provider priced from its
\* aiPricing document throws, and the tables hold the one record
C11_Witness ==
  /\ lastAdd.fn = "addToolCost"
  /\ ~lastAdd.ok
  /\ lastAdd.error =
       <<"Token pricing can only be used with token-based usage">>
  /\ lastAdd.args.usage.type = "credits"
  /\ Len(costPerAIRequest) + Len(costPerTools) = 1

----------------------------------------------------------------------------
(* The calculators, case by case *)

\* the last call was a credits or a requests usage priced by a pricing of its
\* kind
TypedRateCall ==
  /\ calcCall.fn = "calculateToolCost"
  /\ calcCall.returned
  /\ calcCall.usage.type \in {"credits", "requests"}
  /\ calcCall.pricing.type = calcCall.usage.type

\* the rate of an entry of the pricing's table when the usage names a type that
\* has one, the flat rate otherwise
EntryRate(named, table, flat) ==
  IF named # Undefined /\ table # Undefined /\ named[1] \in DOMAIN table[1]
  THEN table[1][named[1]] ELSE flat

\* C13: a credits (requests) usage is charged at the rate of the entry of
\* creditTypes (requestTypes) for the creditType (requestType) it names
\* whenever there is such an entry, whatever its value, and at costPerCredit
\* (costPerRequest) otherwise; the amount is round8(quantity * rate) and the
\* breakdown reports the rate.
C13_TypedRate ==
  TypedRateCall =>
    LET usage == calcCall.usage
        pricing == calcCall.pricing
        credits == usage.type = "credits"
        quantity == IF credits THEN usage.credits ELSE usage.requests
        rate == IF credits
                THEN EntryRate(usage.creditType, pricing.creditTypes,
                               pricing.costPerCredit)
                ELSE EntryRate(usage.requestType, pricing.requestTypes,
                               pricing.costPerRequest)
        reported == IF credits THEN calcResult.cost.breakdown.costPerCredit
                    ELSE calcResult.cost.breakdown.costPerRequest
    IN /\ calcResult.ok
       /\ calcResult.cost.amount = round8(Mul(quantity, rate))
       /\ reported = rate

TokensCall ==
  /\ calcCall.returned
  /\ calcResult.ok
  /\ \/ /\ calcCall.fn = "calculateToolCost"
        /\ calcCall.usage.type = "tokens"
     \/ calcCall.fn = "calculateToolCostFromTokenPricing"

CostsCall == calcCall.fn = "calculateCosts" /\ calcCall.returned

\* the rates of the pricing of the last call
RatesOfCall ==
  IF calcCall.fn = "calculateToolCost" THEN calcCall.pricing
  ELSE calcCall.pricing.pricing

\* round8(count / 1,000,000 * rate), a count that is absent being 0
FieldCost(count, rate) == round8(Mul(PerMillion(OrElse(count, Zero)), rate))

\* the sum of the per-field costs of a tokens breakdown
TokenFieldsSum(breakdown) ==
  Add(Add(Add(Add(breakdown.inputTokensCost, breakdown.outputTokensCost),
              OrElse(breakdown.reasoningTokensCost, Zero)),
          OrElse(breakdown.cacheReadTokensCost, Zero)),
      OrElse(breakdown.cacheWriteTokensCost, Zero))

\* the sum of the four per-field costs of calculateCosts
CostFieldsSum(costs) ==
  Add(Add(Add(costs.promptTokensCost, costs.completionTokensCost),
          costs.reasoningTokensCost),
      costs.cachedInputTokensCost)

\* C14: each per-field token cost is round8(count / 1,000,000 * rate), for the
\* input, output, reasoning, cache-read and cache-write tokens of
\* calculateToolCost and calculateToolCostFromTokenPricing and for the prompt,
\* completion, reasoning and cached input tokens of calculateCosts, an absent
\* reasoning rate being the output rate, an absent cache-read rate a quarter
\* of the input rate and an absent cache-write rate the output rate (a cost
\* that is not reported counts as 0); and the total is the sum of the
\* per-field costs.
C14_TokenCosts ==
  /\ TokensCall =>
       LET usage == calcCall.usage
           rates == RatesOfCall
           breakdown == calcResult.cost.breakdown
       IN /\ breakdown.inputTokensCost
               = FieldCost(Some(usage.inputTokens), rates.input)
          /\ breakdown.outputTokensCost
               = FieldCost(Some(usage.outputTokens), rates.output)
          /\ OrElse(breakdown.reasoningTokensCost, Zero)
               = FieldCost(usage.reasoningTokens,
                           OrElse(rates.reasoning, rates.output))
          /\ OrElse(breakdown.cacheReadTokensCost, Zero)
               = FieldCost(usage.cacheReadTokens,
                           OrElse(rates.cache_read,
                                  Mul(Rat(1, 4), rates.input)))
          /\ OrElse(breakdown.cacheWriteTokensCost, Zero)
               = FieldCost(usage.cacheWriteTokens,
                           OrElse(rates.cache_write, rates.output))
          /\ calcResult.cost.amount = TokenFieldsSum(breakdown)
  /\ CostsCall =>
       LET usage == calcCall.usage
           rates == calcCall.pricing.pricing
           costs == calcResult.costs
       IN /\ costs.promptTokensCost
               = FieldCost(Some(usage.promptTokens), rates.input)
          /\ costs.completionTokensCost
               = FieldCost(Some(usage.completionTokens), rates.output)
          /\ costs.reasoningTokensCost
               = FieldCost(usage.reasoningTokens,
                           OrElse(rates.reasoning, rates.output))
          /\ costs.cachedInputTokensCost
               = FieldCost(usage.cachedInputTokens,
                           OrElse(rates.cache_read,
                                  Mul(Rat(1, 4), rates.input)))
          /\ costs.totalCost = CostFieldsSum(costs)

\* C15: every reported total is round8 of the sum of the reported per-field
\* costs: of calculateCosts, of the tokens, bandwidth and composite cases of
\* calculateToolCost, and of calculateToolCostFromTokenPricing.
C15_TotalOfRounded ==
  /\ CostsCall =>
       calcResult.costs.totalCost = round8(CostFieldsSum(calcResult.costs))
  /\ TokensCall =>
       calcResult.cost.amount
         = round8(TokenFieldsSum(calcResult.cost.breakdown))
  /\ (/\ calcCall.fn = "calculateToolCost"
      /\ calcCall.returned
      /\ calcResult.ok
      /\ calcCall.usage.type = "bandwidth") =>
       calcResult.cost.amount
         = round8(Add(OrElse(calcResult.cost.breakdown.bytesInCost, Zero),
                      OrElse(calcResult.cost.breakdown.bytesOutCost, Zero)))
  /\ (/\ calcCall.fn = "calculateToolCost"
      /\ calcCall.returned
      /\ calcResult.ok
      /\ calcCall.usage.type = "composite") =>
       LET components == calcResult.cost.breakdown.components
       IN calcResult.cost.amount
            = round8(SumTotalCost(components, Len(components)))

\* C17: for composite usage with composite pricing calculateToolCost returns
\* without an error; the breakdown has one entry per usage component, in usage
\* order, carrying the component's name and quantity; an entry's totalCost is
\* round8(quantity * costPerUnit) of the pricing component with the same name
\* (the first of them when several share the name), and 0 when no pricing
\* component has that name; amount is round8 of the sum of the entries' costs.
CompositeCall ==
  /\ calcCall.fn = "calculateToolCost"
  /\ calcCall.returned
  /\ calcCall.usage.type = "composite"
  /\ calcCall.pricing.type = "composite"

SameNamed(components, name) ==
  SelectSeq(components, LAMBDA p : p.name = name)

NamedCost(usageComp, sameNamed) ==
  IF sameNamed = <<>> THEN Zero
  ELSE round8(Mul(usageComp.quantity, Head(sameNamed).costPerUnit))

C17_Composite ==
  CompositeCall =>
    /\ calcResult.ok
    /\ LET used == calcCall.usage.components
           listed == calcResult.cost.breakdown.components
       IN /\ Len(listed) = Len(used)
          /\ \A k \in 1..Len(used) :
               /\ listed[k].name = used[k].name
               /\ listed[k].quantity = used[k].quantity
               /\ listed[k].totalCost
                    = NamedCost(used[k],
                                SameNamed(calcCall.pricing.components,
                                          used[k].name))
          /\ calcResult.cost.amount
               = round8(SumTotalCost(listed, Len(listed)))

\* a priced component followed by one that no pricing component names
C17_Witness ==
  /\ CompositeCall
  /\ calcResult.ok
  /\ Len(calcCall.usage.components) = 2
  /\ calcCall.usage.components[1].name = "cpu"
  /\ calcCall.usage.components[2].name = "ram"
  /\ calcCall.pricing.components # <<>>
  /\ calcResult.cost.breakdown.components[1].totalCost = Rat(3, 100)
  /\ calcResult.cost.breakdown.components[2].totalCost = Zero
  /\ calcResult.cost.amount = Rat(3, 100)

\* C18: calculateToolCost on a usage and a pricing of the same kind returns,
\* and the breakdown it returns carries that kind as its type; when no
\* quantity of the usage is negative the amount is not negative (every rate
\* and multiplier of the explored pricings is non-negative).
SameKindCall ==
  /\ calcCall.fn = "calculateToolCost"
  /\ calcCall.returned
  /\ calcCall.usage.type = calcCall.pricing.type

OptNonNegative(x) == x = Undefined \/ LessEq(Zero, x[1])

NonNegativeUsage(usage) ==
  CASE usage.type = "credits" -> LessEq(Zero, usage.credits)
    [] usage.type = "tokens" ->
         /\ LessEq(Zero, usage.inputTokens)
         /\ LessEq(Zero, usage.outputTokens)
         /\ OptNonNegative(usage.reasoningTokens)
         /\ OptNonNegative(usage.cacheReadTokens)
         /\ OptNonNegative(usage.cacheWriteTokens)
    [] usage.type = "requests" -> LessEq(Zero, usage.requests)
    [] usage.type = "compute" -> LessEq(Zero, usage.durationMs)
    [] usage.type = "storage" ->
         /\ LessEq(Zero, usage.bytes)
         /\ OptNonNegative(usage.durationSeconds)
    [] usage.type = "bandwidth" ->
         /\ OptNonNegative(usage.bytesIn)
         /\ OptNonNegative(usage.bytesOut)
    [] usage.type = "units" -> LessEq(Zero, usage.units)
    [] usage.type = "tiered" -> LessEq(Zero, usage.quantity)
    [] usage.type = "composite" ->
         \A k \in 1..Len(usage.components) :
           LessEq(Zero, usage.components[k].quantity)
    [] usage.type = "custom" -> TRUE

C18_KindAndSign ==
  SameKindCall =>
    /\ calcResult.ok
    /\ calcResult.cost.breakdown.type = calcCall.usage.type
    /\ NonNegativeUsage(calcCall.usage) =>
         LessEq(Zero, calcResult.cost.amount)

\* a tiered call with a positive quantity and a positive amount
C18_Witness ==
  /\ SameKindCall
  /\ calcResult.ok
  /\ calcCall.usage.type = "tiered"
  /\ calcCall.usage.quantity = Num(150)
  /\ calcResult.cost.breakdown.type = "tiered"
  /\ Less(Zero, calcResult.cost.amount)

\* a negative quantity gives a negative amount: -2 credits at 0.01
C18_NegativeQuantity ==
  /\ SameKindCall
  /\ calcResult.ok
  /\ calcCall.usage.type = "credits"
  /\ calcCall.usage.credits = Num(-2)
  /\ calcResult.cost.amount = Rat(-1, 50)

\* C19: add calls are not deduplicated: for each messageId the costPerAIRequest
\* table holds as many records with it as addAICost calls for it have
\* returned, and the costPerTools table as many as addToolCost calls for it
\* have returned.
RecordsOf(table, messageId) ==
  Len(SelectSeq(table, LAMBDA r : r.messageId = messageId))

C19_NoDeduplication ==
  \A messageId \in MessageIds :
    /\ RecordsOf(costPerAIRequest, messageId)
         = returnedAdds["addAICost"][messageId]
    /\ RecordsOf(costPerTools, messageId)
         = returnedAdds["addToolCost"][messageId]

\* two addAICost calls for one message have returned and left two records
C19_Witness ==
  /\ returnedAdds["addAICost"]["msg_1"] = 2
  /\ RecordsOf(costPerAIRequest, "msg_1") = 2
  /\ lastAdd.fn = "addAICost"
  /\ lastAdd.ok

\* the same for two addToolCost calls
C19_ToolWitness ==
  /\ returnedAdds["addToolCost"]["msg_1"] = 2
  /\ RecordsOf(costPerTools, "msg_1") = 2

----------------------------------------------------------------------------
(* The example application over a deployment whose pricing comes and goes *)

InitExample ==
  /\ SyncInit /\ CalcIdle /\ ResolveIdle /\ ExampleInit
  /\ options = ExampleOptions
  /\ markupTable = <<>>
  /\ toolsPricing = <<>>
  /\ costPerAIRequest = <<>>
  /\ costPerTools = <<>>
  /\ lastAdd = NoCall
  /\ returnedAdds = NoAdds

NextExample ==
  \/ UpdatePricingDataWith({ExampleResponse, Rejected})
       /\ UNCHANGED <<calcVars, resolveVars, exampleVars>>
  \/ TransactionReads /\ UNCHANGED <<calcVars, resolveVars>>
  \/ TransactionChecks /\ UNCHANGED <<calcVars, resolveVars>>
  \/ TransactionAdds /\ UNCHANGED <<calcVars, resolveVars>>

SpecExample == InitExample /\ [][NextExample]_vars

\* C20: under any interleaving of the invocations of addAICostTransaction for
\* a messageId, the costPerAIRequest table holds at most one record with that
\* messageId.
C20_AtMostOncePerMessage ==
  \A messageId \in MessageIds : RecordsOf(costPerAIRequest, messageId) <= 1

\* an invocation that checks after a record is there returns without adding
C20_CheckSkips ==
  /\ RecordsOf(costPerAIRequest, "msg_1") = 1
  /\ \E i, j \in Invocations :
       /\ transactions[i] = "returned"
       /\ transactions[j] = "returned"
       /\ i # j
  /\ returnedAdds["addAICost"]["msg_1"] = 1

----------------------------------------------------------------------------
(* The rule store on its own: upserts, deletes and resolutions *)

InitMarkup ==
  SyncInit /\ CalcIdle /\ ResolveIdle /\ CostIdle /\ ExampleIdle

NextMarkup ==
  \/ StoreUpsert /\ UNCHANGED <<calcVars, resolveVars, exampleVars>>
  \/ StoreDelete /\ UNCHANGED <<calcVars, resolveVars, exampleVars>>
  \/ StoreResolve /\ UNCHANGED <<calcVars, resolveVars, exampleVars>>

SpecMarkup == InitMarkup /\ [][NextMarkup]_vars

\* C21: for every store reached by upserts and deletes and every request, the
\* markup.getMarkupMultiplier query returns the multiplier that the shared
\* getMarkupMultiplier returns over the three lists of getMarkupMultipliers.
C21_SameCascade ==
  lastAdd.fn = "getMarkupMultiplier" =>
    lastAdd.returns.persisted = lastAdd.returns.inProcess

\* a model rule, a tool rule and a provider rule of one provider are stored
\* and a request naming the model and the tool resolves to the model rule
C21_Witness ==
  /\ lastAdd.fn = "getMarkupMultiplier"
  /\ lastAdd.args = [providerId |-> "openai", modelId |-> Some("gpt-4o"),
                     toolId |-> Some("search")]
  /\ Len(markupTable) = 3
  /\ \A i \in 1..3 : markupTable[i].providerId = "openai"
  /\ \E i \in 1..3 :
       /\ markupTable[i].scope = "model"
       /\ markupTable[i].markupMultiplier = Num(2)
  /\ \E i \in 1..3 :
       /\ markupTable[i].scope = "tool"
       /\ markupTable[i].markupMultiplier = Zero
  /\ lastAdd.returns.persisted = Num(2)
  /\ lastAdd.returns.inProcess = Num(2)

----------------------------------------------------------------------------
(* What a run writes *)

\* the records of a table or feed as a set
RecordsIn(records) == {records[k] : k \in 1..Len(records)}

\* a stored record and a feed entry of the same (providerId, modelId) key
SameKey(existing, remote) ==
  /\ existing.providerId = remote.providerId
  /\ existing.modelId = remote.modelId

\* no two records of a table or feed have the same (providerId, modelId) key
OneRecordPerKey(records) ==
  \A i, j \in 1..Len(records) : SameKey(records[i], records[j]) => i = j

\* C22: after a run of updatePricingTable over a table and a feed that hold
\* each key once, a record that was stored before the run and whose tracked
\* fields equal those of the feed entry of its key is still stored as it was,
\* lastUpdated included; a stored record that differs from the feed entry of
\* its key in a tracked field has been replaced by that entry, lastUpdated
\* included; and the key of a record that was stored and is in the feed is
\* still in the table.
C22_WritesOnlyChanges ==
  (clock > 0 /\ OneRecordPerKey(preCatalog) /\ OneRecordPerKey(lastFeed)) =>
    \A existing \in RecordsIn(preCatalog) :
      /\ \A remote \in RecordsIn(lastFeed) :
           SameKey(existing, remote) =>
             IF hasPricingChanged(existing, remote)
             THEN /\ remote \in RecordsIn(aiPricing)
                  /\ existing \notin RecordsIn(aiPricing)
             ELSE existing \in RecordsIn(aiPricing)
      /\ <<existing.providerId, existing.modelId>> \in KeysOf(lastFeed) =>
           <<existing.providerId, existing.modelId>> \in KeysOf(aiPricing)

\* the feeds and tables in which no two records have the same map key
OneRecordPerMapKey(records) ==
  \A i, j \in 1..Len(records) :
    MapKey(records[i]) = MapKey(records[j]) => i = j

\* C22 holds for the runs whose feed and table are of that kind
C22_WithDistinctMapKeys ==
  (OneRecordPerMapKey(lastFeed) /\ OneRecordPerMapKey(preCatalog)) =>
    C22_WritesOnlyChanges

\* such a run patches a changed record and leaves an unchanged one alone
C22_PatchedAndKept ==
  /\ clock = 2
  /\ OneRecordPerMapKey(lastFeed)
  /\ OneRecordPerMapKey(preCatalog)
  /\ Len(preCatalog) = 2
  /\ lastResult.updateCount = 1
  /\ lastResult.insertCount = 0
  /\ lastResult.deleteCount = 0
  /\ \E k \in 1..2 : aiPricing[k].lastUpdated = 1
  /\ \E k \in 1..2 : aiPricing[k].lastUpdated = 2

----------------------------------------------------------------------------
(* Runs of updatePricingTable that return and runs that throw *)

NextAtomic ==
  \/ UpdatePricingTable
       /\ UNCHANGED <<calcVars, resolveVars, costVars, exampleVars>>
  \/ FailingUpdatePricingTable
       /\ UNCHANGED <<calcVars, resolveVars, costVars, exampleVars>>

SpecAtomic == InitSync /\ [][NextAtomic]_vars

\* the last run threw
Failed == "failed" \in DOMAIN lastResult

----------------------------------------------------------------------------
(* The rules the mutations keep *)

\* the scope tuple of a stored rule
TupleOf(rule) ==
  CASE rule.scope = "provider" -> <<"provider", rule.providerId>>
    [] rule.scope = "model" -> <<"model", rule.providerId, rule.modelId>>
    [] rule.scope = "tool" -> <<"tool", rule.providerId, rule.toolId>>

\* the scope tuple an upsert or delete call names
NamedTuple(call) ==
  CASE call.fn = "upsertProviderMarkup" ->
         <<"provider", call.args.providerId>>
    [] call.fn = "upsertModelMarkup" ->
         <<"model", call.args.providerId, Some(call.args.modelId)>>
    [] call.fn = "upsertToolMarkup" ->
         <<"tool", call.args.providerId, Some(call.args.toolId)>>
    [] call.fn = "deleteMarkup" ->
         TupleOf([scope |-> call.args.scope,
                  providerId |-> call.args.providerId,
                  modelId |-> call.args.modelId, toolId |-> call.args.toolId])

OneRulePerTuple ==
  \A i, j \in 1..Len(markupTable) :
    TupleOf(markupTable[i]) = TupleOf(markupTable[j]) => i = j

\* the step is an upsert that names a stored tuple: the table differs, if at
\* all, in the multiplier of that rule, which is the call's
UpsertOfStoredRule ==
  (/\ lastAdd'.fn \in {"upsertProviderMarkup", "upsertModelMarkup",
                       "upsertToolMarkup"}
   /\ \E i \in 1..Len(markupTable) :
        TupleOf(markupTable[i]) = NamedTuple(lastAdd')) =>
    /\ Len(markupTable') = Len(markupTable)
    /\ \A i \in 1..Len(markupTable) :
         markupTable'[i] =
           IF TupleOf(markupTable[i]) = NamedTuple(lastAdd')
           THEN [markupTable[i] EXCEPT
                   !.markupMultiplier = lastAdd'.args.markupMultiplier]
           ELSE markupTable[i]

\* the step is a deleteMarkup: the other rules stay, in their order, and the
\* call returns true exactly when the tuple was stored
DeleteOfNamedRule ==
  lastAdd'.fn = "deleteMarkup" =>
    /\ markupTable' =
         SelectSeq(markupTable,
                   LAMBDA rule : TupleOf(rule) # NamedTuple(lastAdd'))
    /\ lastAdd'.returns =
         (\E i \in 1..Len(markupTable) :
            TupleOf(markupTable[i]) = NamedTuple(lastAdd'))

\* C24: from the empty store, after any upserts and deletes, the store holds
\* at most one rule per scope tuple; an upsert of a stored tuple changes only
\* that rule's multiplier; a deleteMarkup removes only the rule of the named
\* tuple and returns true exactly when there was one.
C24_OneRulePerTuple ==
  /\ []OneRulePerTuple
  /\ [][UpsertOfStoredRule /\ DeleteOfNamedRule]_vars

\* a deleteMarkup has returned true and left the two other rules stored
C24_Witness ==
  /\ lastAdd.fn = "deleteMarkup"
  /\ lastAdd.returns = TRUE
  /\ Len(markupTable) = 2
  /\ \A i \in 1..2 : TupleOf(markupTable[i]) # NamedTuple(lastAdd)
  /\ \E i \in 1..2 : markupTable[i].providerId = lastAdd.args.providerId

----------------------------------------------------------------------------
(* The tool pricing lookup over the two pricing tables *)

NextToolPricing ==
  \/ StoreToolsPricing /\ UNCHANGED <<calcVars, resolveVars, exampleVars>>
  \/ UpdatePricingDataWith({FeedResponse})
       /\ UNCHANGED <<calcVars, resolveVars, exampleVars>>
  \/ GetToolPricing /\ UNCHANGED <<calcVars, resolveVars, exampleVars>>

SpecToolPricing == InitMarkup /\ [][NextToolPricing]_vars

\* the documents of a table that satisfy a test, the first of them being what
\* an index query's first() returns
ExactDocs(request) ==
  SelectSeq(toolsPricing,
            LAMBDA t : /\ t.providerId = request.providerId
                       /\ t.toolId = Some(request.toolId))

DefaultDocs(request) ==
  SelectSeq(toolsPricing,
            LAMBDA t : /\ t.providerId = request.providerId
                       /\ t.toolId = Undefined)

ModelDocs(request) ==
  SelectSeq(aiPricing, LAMBDA p : p.modelId = request.providerId)

\* the record the order of preference gives: null is Undefined
Preferred(exact, default, model) ==
  IF exact # <<>> THEN Some(Head(exact))
  ELSE IF default # <<>> THEN Some(Head(default))
  ELSE IF model # <<>> THEN Some(Head(model))
  ELSE Undefined

\* C25: getToolPricing(providerId, toolId) returns the toolsPricing record of
\* the providerId and toolId; else the toolsPricing record of the providerId
\* without a toolId; else the aiPricing record whose modelId is the
\* providerId; else null.
C25_OrderOfPreference ==
  lastAdd.fn = "getToolPricing" =>
    lastAdd.returns = Preferred(ExactDocs(lastAdd.args),
                                DefaultDocs(lastAdd.args),
                                ModelDocs(lastAdd.args))

\* the order of preference holds for the requests whose toolId is not empty
C25_ForNamedTools ==
  (lastAdd.fn = "getToolPricing" /\ lastAdd.args.toolId # "") =>
    C25_OrderOfPreference

\* the exact record is preferred to the aiPricing record of the provider
C25_ExactPreferred ==
  /\ lastAdd.fn = "getToolPricing"
  /\ lastAdd.args = [providerId |-> "gpt-4o", toolId |-> "search"]
  /\ ModelDocs(lastAdd.args) # <<>>
  /\ Len(ExactDocs(lastAdd.args)) = 2
  /\ lastAdd.returns = Some(toolsPricing[1])

\* a request for a tool without a record falls back to the aiPricing record,
\* the provider's other toolsPricing records notwithstanding
C25_FallsBackToModel ==
  /\ lastAdd.fn = "getToolPricing"
  /\ lastAdd.args = [providerId |-> "gpt-4o", toolId |-> "crawl"]
  /\ toolsPricing # <<>>
  /\ \A k \in 1..Len(toolsPricing) : toolsPricing[k].providerId = "gpt-4o"
  /\ aiPricing # <<>>
  /\ lastAdd.returns = Some(aiPricing[1])

----------------------------------------------------------------------------
(* Rounding and sign *)

Round8Call == calcCall.fn = "round8" /\ calcCall.returned

\* value * 1e8 lies halfway between two integers: value * 2e8 is an odd
\* integer, value being n / d in lowest terms
Halfway(value) ==
  /\ (2 * E8) % value.d = 0
  /\ ((2 * E8) \div value.d) % 2 = 1
  /\ value.n % 2 = 1

\* C26: round8(-x) = -round8(x) for every x, the values halfway between two
\* adjacent 8-decimal values included.
C26_Symmetric ==
  Round8Call => calcResult.ofNegation = Neg(calcResult.rounded)

\* it holds for the values that are not halfway
C26_OffHalfway ==
  (Round8Call /\ ~Halfway(calcCall.value)) =>
    calcResult.ofNegation = Neg(calcResult.rounded)

\* a halfway value goes up and so does its negation: 0.000000005 gives
\* 0.00000001 and -0.000000005 gives 0
C26_HalfwayGoesUp ==
  /\ Round8Call
  /\ calcCall.value = Rat(1, 2 * E8)
  /\ calcResult.rounded = Rat(1, E8)
  /\ calcResult.ofNegation = Zero

----------------------------------------------------------------------------
(* The cost records and their queries *)

NextQueries ==
  \/ UpdatePricingDataWith({FeedResponse})
       /\ UNCHANGED <<calcVars, resolveVars, exampleVars>>
  \/ QueriedAddAICost /\ UNCHANGED <<calcVars, resolveVars, exampleVars>>
  \/ GetAICostsByThread /\ UNCHANGED <<calcVars, resolveVars, exampleVars>>
  \/ GetTotalAICostsByUser /\ UNCHANGED <<calcVars, resolveVars, exampleVars>>

SpecQueries == InitMarkup /\ [][NextQueries]_vars

\* how many records of a list are a given record
CountIn(records, record) ==
  Cardinality({k \in 1..Len(records) : records[k] = record})

\* C27: getAICostsByThread(threadId), through the CostComponent method and
\* through a query that calls it, returns the costPerAIRequest records of
\* that threadId and no other: each of them as many times as it is stored,
\* and the empty list when the thread has no record.
C27_RecordsOfThread ==
  lastAdd.fn = "getAICostsByThread" =>
    /\ \A k \in 1..Len(lastAdd.returns) :
         lastAdd.returns[k].threadId = lastAdd.args.threadId
    /\ \A k \in 1..Len(costPerAIRequest) :
         costPerAIRequest[k].threadId = lastAdd.args.threadId =>
           CountIn(lastAdd.returns, costPerAIRequest[k])
             = CountIn(costPerAIRequest, costPerAIRequest[k])
    /\ (\A k \in 1..Len(costPerAIRequest) :
          costPerAIRequest[k].threadId # lastAdd.args.threadId) =>
         lastAdd.returns = <<>>

\* a query wrapping the method returns one thread's record of two stored
C27_Witness ==
  /\ lastAdd.fn = "getAICostsByThread"
  /\ lastAdd.args = [threadId |-> "thread_2", via |-> "query"]
  /\ Len(costPerAIRequest) = 2
  /\ costPerAIRequest[1].threadId = "thread_1"
  /\ lastAdd.returns = <<costPerAIRequest[2]>>

\* the query returns the empty list for a thread without records
C27_EmptyThread ==
  /\ lastAdd.fn = "getAICostsByThread"
  /\ lastAdd.args.via = "CostComponent"
  /\ costPerAIRequest = <<>>
  /\ lastAdd.returns = <<>>

\* the sum of a field's totalCost over the stored records of a user
RECURSIVE StoredSum(_, _, _)
StoredSum(userId, field, k) ==
  IF k = 0 THEN Zero
  ELSE IF costPerAIRequest[k].userId = Some(userId)
       THEN Add(StoredSum(userId, field, k - 1),
                costPerAIRequest[k][field].totalCost)
       ELSE StoredSum(userId, field, k - 1)

StoredOf(userId) ==
  {k \in 1..Len(costPerAIRequest) : costPerAIRequest[k].userId = Some(userId)}

\* C28: after any sequence of addAICost calls, getTotalAICostsByUser(u)
\* returns as count the number of stored records whose userId is u, as
\* totalAmount round8 of the sum of their cost.totalCost and as
\* totalUserAmount round8 of the sum of their costForUser.totalCost; the
\* records of other users and the records without a userId count for nobody.
C28_TotalsOfUser ==
  lastAdd.fn = "getTotalAICostsByUser" =>
    LET u == lastAdd.args.userId
        n == Len(costPerAIRequest)
    IN /\ lastAdd.returns.count = Cardinality(StoredOf(u))
       /\ lastAdd.returns.totalAmount = round8(StoredSum(u, "cost", n))
       /\ lastAdd.returns.totalUserAmount
            = round8(StoredSum(u, "costForUser", n))

\* the totals of a user with one record, beside a record without a userId
C28_Witness ==
  /\ lastAdd.fn = "getTotalAICostsByUser"
  /\ lastAdd.args.userId = "user_1"
  /\ Len(costPerAIRequest) = 2
  /\ costPerAIRequest[1].userId = Some("user_1")
  /\ costPerAIRequest[2].userId = Undefined
  /\ lastAdd.returns.count = 1
  /\ Less(Zero, lastAdd.returns.totalAmount)
  /\ Less(lastAdd.returns.totalAmount, lastAdd.returns.totalUserAmount)

\* the totals of a user beside another user's record
C28_OtherUser ==
  /\ lastAdd.fn = "getTotalAICostsByUser"
  /\ lastAdd.args.userId = "user_2"
  /\ Len(costPerAIRequest) = 2
  /\ costPerAIRequest[1].userId = Some("user_1")
  /\ costPerAIRequest[2].userId = Some("user_2")
  /\ lastAdd.returns.count = 1

\* the totals of two records of one user
C28_TwoRecords ==
  /\ lastAdd.fn = "getTotalAICostsByUser"
  /\ lastAdd.returns.count = 2
  /\ costPerAIRequest[1].usage # costPerAIRequest[2].usage

----------------------------------------------------------------------------
(* The constructor's lists without a matching rule, beside stored rules *)

\* a call through CostComponent without an override, that no rule of the
\* constructor's lists matches and a stored rule does
OnlyStoredRuleMatches ==
  /\ lastAdd.fn \in {"addAICost", "addToolCost"}
  /\ lastAdd.via = "CostComponent"
  /\ lastAdd.ok
  /\ lastAdd.args.markupMultiplier = Undefined
  /\ ~ConfiguredRuleMatches
  /\ StoredRuleMatches

\* C29: when no rule of the constructor's lists matches the request and the
\* caller passes no override, the cost saved by CostComponent.addAICost and
\* CostComponent.addToolCost is charged at the multiplier the cascade
\* resolves from the stored rules: the 0 the lists resolve to never takes the
\* place of a stored rule.
C29_StoredRuleNotMasked ==
  OnlyStoredRuleMatches
  => IF lastAdd.fn = "addAICost"
     THEN AIChargedAt(markup_getMarkupMultiplier(
            lastAdd.args.providerId, Some(lastAdd.args.modelId), Undefined))
     ELSE ToolChargedAt(markup_getMarkupMultiplier(
            lastAdd.args.providerId, Undefined, Some(lastAdd.args.toolId)))

\* the AI half: the 0 of the lists is falsy and gives way to the stored rule
C29_AIPath ==
  (OnlyStoredRuleMatches /\ lastAdd.fn = "addAICost")
  => AIChargedAt(markup_getMarkupMultiplier(
       lastAdd.args.providerId, Some(lastAdd.args.modelId), Undefined))

\* the AI half happens
C29_AIPathReached ==
  /\ OnlyStoredRuleMatches
  /\ lastAdd.fn = "addAICost"
  /\ SavedAI.costForUser.totalCost # Zero

\* the tool half: a stored rule above 0 matches and the cost is charged at 0
C29_ToolMasked ==
  /\ OnlyStoredRuleMatches
  /\ lastAdd.fn = "addToolCost"
  /\ Less(Zero, markup_getMarkupMultiplier(
       lastAdd.args.providerId, Undefined, Some(lastAdd.args.toolId)))
  /\ ToolChargedAt(Zero)

----------------------------------------------------------------------------
(* Tiered usage outside every tier *)

\* the quantity of the call is below the tier's from or above its to
OutsideTier(tier) ==
  \/ Less(calcCall.usage.quantity, tier.from)
  \/ tier.to # Undefined /\ Less(tier.to[1], calcCall.usage.quantity)

\* a returned tiered call whose quantity is outside every tier of the list
InNoTier ==
  /\ TieredCall
  /\ \A i \in 1..Len(calcCall.pricing.tiers) :
       OutsideTier(calcCall.pricing.tiers[i])

\* C30: a tiered usage whose quantity is in no tier of the pricing, the empty
\* tier list included, makes calculateToolCost return without an error an
\* amount of 0, with effectiveRate 0 and tierApplied "default".
C30_DefaultTier ==
  InNoTier =>
    /\ calcResult.ok
    /\ calcResult.cost.amount = Zero
    /\ calcResult.cost.breakdown.effectiveRate = Zero
    /\ calcResult.cost.breakdown.tierApplied = "default"

\* a quantity between two tiers, 200.5 between [100, 200] and [201, oo)
C30_Witness ==
  /\ InNoTier
  /\ Len(calcCall.pricing.tiers) = 2
  /\ calcCall.usage.quantity = Rat(401, 2)
  /\ calcCall.pricing.tiers[1].to = Some(Num(200))
  /\ calcCall.pricing.tiers[2].from = Num(201)
  /\ calcResult.cost.breakdown.tierApplied = "default"

\* the empty tier list
C30_EmptyTiers ==
  /\ InNoTier
  /\ calcCall.pricing.tiers = <<>>
  /\ calcCall.usage.quantity = Num(150)
  /\ calcResult.cost.amount = Zero

\* a quantity below every tier
C30_BelowEveryTier ==
  /\ InNoTier
  /\ calcCall.pricing.tiers # <<>>
  /\ calcCall.usage.quantity = Num(-1)
  /\ calcResult.cost.amount = Zero

====
